---- MODULE Spec2Model ----
(***************************************************************************)
(* A model of the AI file organizer (src/src/app.component.ts): file       *)
(* intake, the windowed classification run of organizeFiles, the folder    *)
(* taxonomy kept in the `folders` signal, and the user operations on the   *)
(* live record list.                                                       *)
(*                                                                         *)
(* Strings are sequences of one-character strings, so that split, trim,    *)
(* replace, toLowerCase and sort are computed as JavaScript computes them. *)
(***************************************************************************)
EXTENDS Integers, Sequences, FiniteSets, TLC

(***************************************************************************)
(* Characters and the string primitives of JavaScript used by the code.    *)
(***************************************************************************)

\* The characters of the model in ascending UTF-16 code unit order.
Alphabet ==
    << " ", "\"", "'", "*", ",", "-", ".", "/",
       "0", "1", "2", "3", "4", "5", "6", "7", "8", "9",
       ":", "<", ">", "?",
       "A", "B", "C", "D", "E", "F", "G", "H", "I", "J", "K", "L", "M",
       "N", "O", "P", "Q", "R", "S", "T", "U", "V", "W", "X", "Y", "Z",
       "\\", "_",
       "a", "b", "c", "d", "e", "f", "g", "h", "i", "j", "k", "l", "m",
       "n", "o", "p", "q", "r", "s", "t", "u", "v", "w", "x", "y", "z",
       "|" >>

UpperCase == << "A", "B", "C", "D", "E", "F", "G", "H", "I", "J", "K", "L", "M",
                "N", "O", "P", "Q", "R", "S", "T", "U", "V", "W", "X", "Y", "Z" >>

LowerCase == << "a", "b", "c", "d", "e", "f", "g", "h", "i", "j", "k", "l", "m",
                "n", "o", "p", "q", "r", "s", "t", "u", "v", "w", "x", "y", "z" >>

\* The position of a character in the code unit order.
CodeOf ==
    [c \in {Alphabet[i] : i \in 1..Len(Alphabet)} |->
        CHOOSE i \in 1..Len(Alphabet) : Alphabet[i] = c]

Code(c) == CodeOf[c]

\* String.prototype.toLowerCase, one character.
LowerOf ==
    [c \in {Alphabet[i] : i \in 1..Len(Alphabet)} |->
        IF \E i \in 1..Len(UpperCase) : UpperCase[i] = c
        THEN LowerCase[CHOOSE i \in 1..Len(UpperCase) : UpperCase[i] = c]
        ELSE c]

LowerChar(c) == LowerOf[c]

\* String.prototype.toLowerCase.
toLowerCase(s) == [i \in 1..Len(s) |-> LowerChar(s[i])]

\* The characters String.prototype.trim removes at both ends.
IsSpace(c) == c = " "

RECURSIVE TrimStart(_)
TrimStart(s) ==
    IF s # << >> /\ IsSpace(Head(s)) THEN TrimStart(Tail(s)) ELSE s

RECURSIVE TrimEnd(_)
TrimEnd(s) ==
    IF s # << >> /\ IsSpace(s[Len(s)]) THEN TrimEnd(SubSeq(s, 1, Len(s) - 1)) ELSE s

\* String.prototype.trim.
trim(s) == TrimEnd(TrimStart(s))

\* s.replace(/[set]/g, ''): every character of the class removed.
RemoveChars(s, set) == SelectSeq(s, LAMBDA c : c \notin set)

\* s.replace(/'/g, "''") style replacement of each character c by the string r.
RECURSIVE ReplaceChar(_, _, _)
ReplaceChar(s, c, r) ==
    IF s = << >> THEN << >>
    ELSE (IF Head(s) = c THEN r ELSE << Head(s) >>) \o ReplaceChar(Tail(s), c, r)

\* s.replace(/[/\\]+/g, '/'): each maximal run of separators becomes one "/".
RECURSIVE CollapseSeparators(_)
CollapseSeparators(s) ==
    IF s = << >> THEN << >>
    ELSE IF Head(s) \in {"/", "\\"}
         THEN IF Len(s) > 1 /\ s[2] \in {"/", "\\"}
              THEN CollapseSeparators(Tail(s))
              ELSE << "/" >> \o CollapseSeparators(Tail(s))
         ELSE << Head(s) >> \o CollapseSeparators(Tail(s))

\* s.split(sep) for a one-character separator: always at least one piece.
RECURSIVE SplitFrom(_, _, _, _)
SplitFrom(s, sep, from, at) ==
    IF at > Len(s) THEN << SubSeq(s, from, Len(s)) >>
    ELSE IF s[at] = sep
         THEN << SubSeq(s, from, at - 1) >> \o SplitFrom(s, sep, at + 1, at + 1)
         ELSE SplitFrom(s, sep, from, at + 1)

split(s, sep) == SplitFrom(s, sep, 1, 1)

\* list.join(sep).
RECURSIVE join(_, _)
join(list, sep) ==
    IF list = << >> THEN << >>
    ELSE IF Len(list) = 1 THEN list[1]
    ELSE list[1] \o sep \o join(Tail(list), sep)

\* a < b in the code unit order the default Array.prototype.sort compares by.
RECURSIVE StrLess(_, _)
StrLess(a, b) ==
    IF b = << >> THEN FALSE
    ELSE IF a = << >> THEN TRUE
    ELSE IF Head(a) = Head(b) THEN StrLess(Tail(a), Tail(b))
    ELSE Code(Head(a)) < Code(Head(b))

RECURSIVE Insert(_, _)
Insert(x, sorted) ==
    IF sorted = << >> THEN << x >>
    ELSE IF StrLess(x, Head(sorted)) THEN << x >> \o sorted
    ELSE << Head(sorted) >> \o Insert(x, Tail(sorted))

\* A list left in insertion order.
Unsorted(list) == list

\* Array.prototype.sort() with no comparator, on a list without equal entries
\* (a stable insertion sort gives the same result as any correct sort).
RECURSIVE sort(_)
sort(list) ==
    IF list = << >> THEN << >> ELSE Insert(list[Len(list)], sort(SubSeq(list, 1, Len(list) - 1)))

\* Array.from(new Set(list)): first occurrences, in order, compared exactly.
RECURSIVE Unique(_)
Unique(list) ==
    IF list = << >> THEN << >>
    ELSE LET front == Unique(SubSeq(list, 1, Len(list) - 1))
             last  == list[Len(list)]
         IN  IF \E i \in 1..Len(front) : front[i] = last THEN front ELSE Append(front, last)

(***************************************************************************)
(* The folder taxonomy.                                                    *)
(***************************************************************************)

\* The characters /[<>:"|?*]/ that sanitizeFolderPath strips.
IllegalFolderChars == {"<", ">", ":", "\"", "|", "?", "*"}

\* The characters /[<>:"/\\|?*]/ that sanitizeFilename strips.
IllegalFilenameChars == IllegalFolderChars \cup {"/", "\\"}

sanitizeFolderPath(path) ==
    IF path = << >> THEN << >>
    ELSE CollapseSeparators(RemoveChars(trim(path), IllegalFolderChars))

\* A pattern without the two path separators.
sanitizeFilenameKeepsSeparators(name) ==
    IF name = << >> THEN << >>
    ELSE RemoveChars(trim(name), IllegalFolderChars)

sanitizeFilename(name) ==
    IF name = << >> THEN << >>
    ELSE RemoveChars(trim(name), IllegalFilenameChars)

Miscellaneous == << "M", "i", "s", "c", "e", "l", "l", "a", "n", "e", "o", "u", "s" >>

\* folders.split(',').map(f => sanitizeFolderPath(f)).filter(f => f)
SanitizedList(folderString) ==
    LET parts == split(folderString, ",")
    IN  SelectSeq([i \in 1..Len(parts) |-> sanitizeFolderPath(parts[i])],
                  LAMBDA f : f # << >>)

\* The computed signal foldersForSelect, as a function of the folders string.
foldersForSelectOf(folderString) ==
    LET uniqueFolders == Unique(SanitizedList(folderString))
        withMisc ==
            IF \E i \in 1..Len(uniqueFolders) :
                   toLowerCase(uniqueFolders[i]) = toLowerCase(Miscellaneous)
            THEN uniqueFolders
            ELSE Append(uniqueFolders, Miscellaneous)
    IN  sort(withMisc)

\* existingFolders.find(f => f.toLowerCase() === name.toLowerCase()):
\* the first match, or << >> when find returns undefined.
FindIgnoreCase(list, name) ==
    IF \E i \in 1..Len(list) : toLowerCase(list[i]) = toLowerCase(name)
    THEN list[CHOOSE i \in 1..Len(list) :
                 /\ toLowerCase(list[i]) = toLowerCase(name)
                 /\ \A j \in 1..(i - 1) : toLowerCase(list[j]) # toLowerCase(name)]
    ELSE << >>

HasIgnoreCase(list, name) ==
    \E i \in 1..Len(list) : toLowerCase(list[i]) = toLowerCase(name)

CommaSpace == << ",", " " >>

\* The updater passed to folders.update when no existing folder matches.
MergeFolder(currentFolders, finalFolder) ==
    LET currentList == SanitizedList(currentFolders)
    IN  IF ~HasIgnoreCase(currentList, finalFolder)
        THEN join(Append(currentList, finalFolder), CommaSpace)
        ELSE currentFolders

(***************************************************************************)
(* State.                                                                  *)
(***************************************************************************)

VARIABLES
    folders,                \* signal: the comma separated folder configuration
    files,                  \* signal: the live list of AppFile records
    isProcessing,           \* signal: the re-entrancy guard of organizeFiles
    processedCount,         \* signal
    totalToProcess,         \* signal
    sourceFolderName,       \* signal, string or null
    destinationFolderName,  \* signal, string or null
    manualSourcePath,       \* signal
    manualDestinationPath,  \* signal
    run,                    \* the locals of the organizeFiles invocation in progress
    intakes,                \* the locals of every processFiles invocation so far
    now,                    \* Date.now()
    called,                 \* history: the records handed to analyzeFile, in call order
    submitted,              \* history: how many files were submitted so far
    removals,               \* history: how many times removeFile was called
    lastOp,                 \* history: the handler that ran last
    arg,                    \* history: the input of the handler that ran last
    downloads,              \* the scripts handed to the browser for download
    viewer                  \* the PdfViewerComponent of the preview

vars == << folders, files, isProcessing, processedCount, totalToProcess,
           sourceFolderName, destinationFolderName, manualSourcePath,
           manualDestinationPath, run, intakes, now, called, submitted, removals,
           lastOp, arg, downloads, viewer >>

pathVars == << sourceFolderName, destinationFolderName, manualSourcePath,
               manualDestinationPath >>

runVars == << isProcessing, processedCount, totalToProcess, run, called >>

\* What the steps of the classification run and of the intake leave alone.
ioVars == << arg, downloads, viewer >>

\* null, and the value of an optional field that is not set.
Null == << "null" >>
Undefined == << "undefined" >>

\* The MIME types of the model.
DocxType == "application/vnd.openxmlformats-officedocument.wordprocessingml.document"
PdfType == "application/pdf"
ImageTypes == {"image/png", "image/jpeg"}

isSupportedFileType(type) == type \in ImageTypes \/ type \in {PdfType, DocxType}

DoNotMove == << "-", "-", "d", "o", "-", "n", "o", "t", "-", "m", "o", "v", "e", "-", "-" >>

\* The messages of errorMessage, each a text of one piece.
UnsupportedMessage == << "Only image, PDF & .docx files can be analyzed." >>
DocxFailedMessage == << "Could not read content from .docx file." >>
AnalysisFailedMessage == << "AI analysis failed." >>

\* The initial value of the folders signal.
DefaultFolders ==
    << "I", "n", "v", "o", "i", "c", "e", "s", ",", " ",
       "R", "e", "c", "e", "i", "p", "t", "s", ",", " ",
       "P", "e", "r", "s", "o", "n", "a", "l", " ", "P", "h", "o", "t", "o", "s", ",", " ",
       "W", "o", "r", "k", " ", "D", "o", "c", "u", "m", "e", "n", "t", "s", ",", " ",
       "T", "r", "a", "v", "e", "l" >>

foldersForSelect == foldersForSelectOf(folders)

progressPercentage ==
    IF totalToProcess = 0 THEN 0 ELSE (processedCount * 100) \div totalToProcess

canOrganize ==
    ~isProcessing /\ \E i \in 1..Len(files) : files[i].status = "pending"

NoRun == [filesToProcess |-> << >>, folderList |-> << >>, i |-> 0, calls |-> << >>]

\* A PdfViewerComponent after construction (pdf-viewer.component.ts, lines
\* 63-70).  The scale is kept in percent.  pdfDoc is the sequence of the pages
\* of the loaded document, the empty sequence for null.  The container is the
\* sequence of the canvases in it, and renders holds the invocations of
\* renderAllPages that are suspended at an await.
NewViewer ==
    [isLoading |-> TRUE, error |-> Null, scale |-> 100, pdfDoc |-> << >>,
     container |-> << >>, renders |-> << >>]

Init ==
    /\ folders = DefaultFolders
    /\ files = << >>
    /\ isProcessing = FALSE
    /\ processedCount = 0
    /\ totalToProcess = 0
    /\ sourceFolderName = Null
    /\ destinationFolderName = Null
    /\ manualSourcePath = << >>
    /\ manualDestinationPath = << >>
    /\ run = NoRun
    /\ intakes = << >>
    /\ now = 0
    /\ called = << >>
    /\ submitted = 0
    /\ removals = 0
    /\ lastOp = "init"
    /\ arg = << >>
    /\ downloads = << >>
    /\ viewer = NewViewer

(***************************************************************************)
(* File intake: processFiles and the FileReader / mammoth callbacks.       *)
(***************************************************************************)

\* A File handed over by the browser: name, size, type, webkitRelativePath, and
\* what reading it yields: `data` is the base64 part of the data URL (or the raw
\* text mammoth extracts), `corrupt` makes mammoth.extractRawText reject, and
\* `unreadable` makes the FileReader fail, so that onload never fires.
File(name, size, type, data) ==
    [name |-> name, size |-> size, type |-> type, webkitRelativePath |-> << >>,
     data |-> data, corrupt |-> FALSE, unreadable |-> FALSE]

\* `${file.name}-${file.size}-${Date.now()}`: size and time are digit strings, so
\* the text determines the three parts and the triple stands for it.
MakeId(file, time) == << file.name, file.size, time >>

\* The record pushed for a file of an unsupported type (lines 228-241).
UnsupportedRecord(uid, id, file) ==
    [uid |-> uid, id |-> id, name |-> file.name, type |-> file.type, size |-> file.size,
     base64Data |-> << >>,
     originalPath |-> IF file.webkitRelativePath # << >>
                      THEN file.webkitRelativePath ELSE file.name,
     extractedText |-> Undefined, status |-> "error", suggestion |-> Undefined,
     finalFolder |-> Undefined, tags |-> Undefined, summary |-> Undefined,
     suggestedName |-> Undefined, useNewName |-> FALSE,
     errorMessage |-> UnsupportedMessage]

\* The record pushed when mammoth rejects (lines 269-282).
DocxErrorRecord(uid, id, file) ==
    [UnsupportedRecord(uid, id, file) EXCEPT !.errorMessage = DocxFailedMessage]

\* The record pushed when mammoth resolves (lines 253-267).
DocxRecord(uid, id, file) ==
    [UnsupportedRecord(uid, id, file) EXCEPT
        !.extractedText = file.data, !.status = "pending", !.useNewName = TRUE,
        !.errorMessage = Undefined]

\* The record pushed when readAsDataURL completes (lines 293-305).
DataUrlRecord(uid, id, file) ==
    [UnsupportedRecord(uid, id, file) EXCEPT
        !.base64Data = file.data, !.status = "pending", !.useNewName = TRUE,
        !.errorMessage = Undefined]

\* The moments of the synchronous loop of processFiles at which Date.now() may
\* advance: after the last file (every id gets the same time), or between two
\* files of equal name and size (the only place where it changes whether two
\* ids are equal).
TickPoints(selection) ==
    {Len(selection)} \cup
    {p \in 1..(Len(selection) - 1) :
        \E a \in 1..p, b \in (p + 1)..Len(selection) :
            /\ selection[a].name = selection[b].name
            /\ selection[a].size = selection[b].size}

\* An update of the live list on every call, with what was read so far.
updateSignalEveryTime(current, count, total, filesForSignal) ==
    current \o filesForSignal

\* checkAndUpdateSignal after processedCount was incremented to `count`.
checkAndUpdateSignal(current, count, total, filesForSignal) ==
    IF count = total THEN current \o filesForSignal ELSE current

\* The locals of a processFiles invocation none of whose callbacks can run any
\* more: nothing refers to them.
Finished ==
    [filesToProcess |-> << >>, ids |-> << >>, filesForSignal |-> << >>,
     processedCount |-> 0, reads |-> << >>]

Collect(intake) ==
    IF intake.processedCount = Len(intake.filesToProcess) THEN Finished ELSE intake

\* The state of one processFiles invocation right after its synchronous loop.
NewIntake(b, selection, tick) ==
    LET n == Len(selection)
        ids == [i \in 1..n |-> MakeId(selection[i], IF i > tick THEN now + 1 ELSE now)]
        unsupported == {i \in 1..n : ~isSupportedFileType(selection[i].type)}
        errorRecords == [i \in 1..n |-> UnsupportedRecord(<< b, i >>, ids[i], selection[i])]
        idx == SelectSeq([i \in 1..n |-> i], LAMBDA i : i \in unsupported)
    IN  [filesToProcess |-> selection,
         ids |-> ids,
         filesForSignal |-> [j \in 1..Len(idx) |-> errorRecords[idx[j]]],
         processedCount |-> Cardinality(unsupported),
         reads |-> [i \in 1..n |-> IF i \in unsupported THEN "none" ELSE "reading"]]

\* processFiles(selectedFiles), called with the live list already set to `current`.
processFiles(current, selection, tick) ==
    IF Len(selection) = 0
    THEN /\ files' = current
         /\ UNCHANGED << intakes, now >>
    ELSE LET b == Len(intakes) + 1
             intake == NewIntake(b, selection, tick)
         IN  /\ files' = checkAndUpdateSignal(current, intake.processedCount,
                                              Len(selection), intake.filesForSignal)
             /\ intakes' = Append(intakes, Collect(intake))
             /\ now' = now + 2

\* handleFileSelect with element.files = selection.
handleFileSelect(selection, tick) ==
    /\ sourceFolderName' = Null
    /\ manualSourcePath' = << >>
    /\ processFiles(<< >>, selection, tick)
    /\ submitted' = submitted + Len(selection)
    /\ UNCHANGED << folders, destinationFolderName, manualDestinationPath, runVars,
                    removals >>

\* A record is pushed by a callback of intake b and checkAndUpdateSignal runs.
PushAndCheck(b, i, record) ==
    LET intake == intakes[b]
        pushed == Append(intake.filesForSignal, record)
        count  == intake.processedCount + 1
    IN  /\ intakes' = [intakes EXCEPT ![b] =
                          Collect([intake EXCEPT !.filesForSignal = pushed,
                                                 !.processedCount = count,
                                                 !.reads[i] = "done"])]
        /\ files' = checkAndUpdateSignal(files, count, Len(intake.filesToProcess), pushed)

\* reader.onload of file i of intake b.
readerOnload(b, i) ==
    LET intake == intakes[b]
        file == intake.filesToProcess[i]
    IN  /\ intake.reads[i] = "reading"
        /\ ~file.unreadable
        /\ IF file.type = DocxType
           THEN /\ intakes' = [intakes EXCEPT ![b].reads[i] = "extracting"]
                /\ UNCHANGED files
           ELSE PushAndCheck(b, i, DataUrlRecord(<< b, i >>, intake.ids[i], file))
        /\ UNCHANGED << folders, pathVars, runVars, now, submitted, removals >>

\* The FileReader of file i of intake b fails: no onerror handler is installed,
\* so nothing of the page runs.
readerError(b, i) ==
    LET intake == intakes[b]
    IN  /\ intake.reads[i] = "reading"
        /\ intake.filesToProcess[i].unreadable
        /\ intakes' = [intakes EXCEPT ![b].reads[i] = "failed"]
        /\ UNCHANGED << folders, files, pathVars, runVars, now, submitted, removals >>

\* mammoth.extractRawText settles for the docx file i of intake b.
extractSettled(b, i) ==
    LET intake == intakes[b]
        file == intake.filesToProcess[i]
    IN  /\ intake.reads[i] = "extracting"
        /\ PushAndCheck(b, i, IF file.corrupt
                              THEN DocxErrorRecord(<< b, i >>, intake.ids[i], file)
                              ELSE DocxRecord(<< b, i >>, intake.ids[i], file))
        /\ UNCHANGED << folders, pathVars, runVars, now, submitted, removals >>

(***************************************************************************)
(* The classification run: organizeFiles.                                  *)
(***************************************************************************)

CONCURRENCY_LIMIT == 5

Min(a, b) == IF a < b THEN a ELSE b

\* A run that also picks up the records that failed before.
PendingOrFailedFiles(current) ==
    SelectSeq(current, LAMBDA f : f.status \in {"pending", "error"})

\* this.files().filter(f => f.status === 'pending')
PendingFiles(current) == SelectSeq(current, LAMBDA f : f.status = "pending")

\* Only the records of the first batch are marked.
MarkFirstBatchOnly(current) ==
    [k \in 1..Len(current) |->
        IF /\ current[k].status = "pending"
           /\ Cardinality({j \in 1..k : current[j].status = "pending"}) <= CONCURRENCY_LIMIT
        THEN [current[k] EXCEPT !.status = "processing"]
        ELSE current[k]]

\* current.map(f => (f.status === 'pending' ? { ...f, status: 'processing' } : f))
MarkProcessing(current) ==
    [k \in 1..Len(current) |->
        IF current[k].status = "pending"
        THEN [current[k] EXCEPT !.status = "processing"]
        ELSE current[k]]

\* A slice that is one record too long.
BatchOneTooMany(i, n) == (i + 1)..Min(i + CONCURRENCY_LIMIT + 1, n)

\* The positions (from 1) of filesToProcess.slice(i, i + CONCURRENCY_LIMIT).
Batch(i, n) == (i + 1)..Min(i + CONCURRENCY_LIMIT, n)

\* batch.map(async (file) => ...): every call of the batch is issued in one go.
IssueBatch(calls, i) ==
    [k \in 1..Len(calls) |-> IF k \in Batch(i, Len(calls)) THEN "inflight" ELSE calls[k]]

\* The records of a batch, in the order analyzeFile is called for them.
BatchUids(filesToProcess, i) ==
    LET n == Len(filesToProcess)
    IN  [j \in 1..(Min(i + CONCURRENCY_LIMIT, n) - i) |-> filesToProcess[i + j].uid]

\* Promise.race in place of Promise.all: the first settled call ends the wait.
BatchRaced(calls, i) == \E k \in Batch(i, Len(calls)) : calls[k] = "settled"

\* A wait that gives up on the calls that got no answer.
BatchGivenUp(calls, i) == \A k \in Batch(i, Len(calls)) : calls[k] # "inflight"

\* await Promise.all(...) of the batch at offset i resolves.
BatchSettled(calls, i) == \A k \in Batch(i, Len(calls)) : calls[k] = "settled"

\* A loop that ends after its first batch.
LoopEndsEarly(i, n) == FALSE

\* The loop condition i < filesToProcess.length.
LoopContinues(i, n) == i < n

\* No guard: a second run may start while one is active.
NoReentrancyGuard == FALSE

\* if (this.isProcessing()) return;
ReentrancyGuard == isProcessing

\* organizeFiles() up to its first await.
organizeFiles ==
    /\ UNCHANGED << folders, pathVars, intakes, now, submitted, removals >>
    /\ IF ReentrancyGuard
       THEN UNCHANGED << files, runVars >>
       ELSE LET filesToProcess == PendingFiles(files)
                folderList == foldersForSelect
            IN  IF Len(filesToProcess) = 0
                THEN UNCHANGED << files, runVars >>
                ELSE /\ totalToProcess' = Len(filesToProcess)
                     /\ processedCount' = 0
                     /\ IF Len(folderList) = 0
                        THEN /\ isProcessing' = FALSE
                             /\ UNCHANGED << files, run, called >>
                        ELSE /\ isProcessing' = TRUE
                             /\ files' = MarkProcessing(files)
                             /\ run' = [filesToProcess |-> filesToProcess,
                                        folderList |-> folderList,
                                        i |-> 0,
                                        calls |-> IssueBatch(
                                            [k \in 1..Len(filesToProcess) |-> "unissued"], 0)]
                             /\ called' = called \o BatchUids(filesToProcess, 0)

\* A response of the classifier (AnalysisResult).
Result(folder, suggestedFilename) ==
    [failed |-> FALSE, folder |-> folder, tags |-> << << "t" >> >>,
     summary |-> << "s" >>, suggestedFilename |-> suggestedFilename]

\* analyzeFile rejects: the request failed or the response was no valid JSON.
Failure ==
    [failed |-> TRUE, folder |-> << >>, tags |-> << >>, summary |-> << >>,
     suggestedFilename |-> << >>]

\* The folder the record gets: the matching entry, or the suggestion itself.
FinalFolder(match, suggestedFolder) ==
    IF match # << >> THEN match ELSE suggestedFolder

\* The folders signal after a successful classification (lines 358-373).
FoldersAfter(folderString, match, suggestedFolder) ==
    IF match # << >> THEN folderString ELSE MergeFolder(folderString, suggestedFolder)

\* The files.update of the success path (lines 375-389).
ApplyResult(current, id, suggestedFolder, finalFolder, result, suggestedFilename) ==
    [k \in 1..Len(current) |->
        IF current[k].id = id
        THEN [current[k] EXCEPT !.status = "done",
                                !.suggestion = suggestedFolder,
                                !.finalFolder = finalFolder,
                                !.tags = result.tags,
                                !.summary = result.summary,
                                !.suggestedName = suggestedFilename]
        ELSE current[k]]

\* A catch block that leaves the record as it is.
IgnoreFailure(current, id) == current

\* The files.update of the catch block (lines 391-397).
ApplyFailure(current, id) ==
    [k \in 1..Len(current) |->
        IF current[k].id = id
        THEN [current[k] EXCEPT !.status = "error", !.errorMessage = AnalysisFailedMessage]
        ELSE current[k]]

\* The analyzeFile call of filesToProcess[k] settles with `outcome`; the rest of
\* the callback runs, and with the last call of a batch the loop of
\* organizeFiles goes on: the next batch is issued, or the run ends.
analyzeSettled(k, outcome) ==
    /\ k \in 1..Len(run.calls)
    /\ run.calls[k] = "inflight"
    /\ LET file == run.filesToProcess[k]
           n == Len(run.calls)
           calls == [run.calls EXCEPT ![k] = "settled"]
           nextI == run.i + CONCURRENCY_LIMIT
       IN  /\ IF outcome.failed
              THEN /\ files' = ApplyFailure(files, file.id)
                   /\ UNCHANGED folders
              ELSE LET suggestedFolder == sanitizeFolderPath(outcome.folder)
                       suggestedFilename == sanitizeFilename(outcome.suggestedFilename)
                       match == FindIgnoreCase(foldersForSelect, suggestedFolder)
                   IN  /\ folders' = FoldersAfter(folders, match, suggestedFolder)
                       /\ files' = ApplyResult(files, file.id, suggestedFolder,
                                               FinalFolder(match, suggestedFolder),
                                               outcome, suggestedFilename)
           /\ processedCount' = processedCount + 1
           /\ IF ~BatchSettled(calls, run.i)
              THEN /\ run' = [run EXCEPT !.calls = calls]
                   /\ UNCHANGED << isProcessing, called >>
              ELSE IF LoopContinues(nextI, n)
              THEN /\ run' = [run EXCEPT !.i = nextI, !.calls = IssueBatch(calls, nextI)]
                   /\ called' = called \o BatchUids(run.filesToProcess, nextI)
                   /\ UNCHANGED isProcessing
              ELSE /\ run' = NoRun
                   /\ isProcessing' = FALSE
                   /\ UNCHANGED called
    /\ UNCHANGED << totalToProcess, pathVars, intakes, now, submitted, removals >>

(***************************************************************************)
(* The user operations on the live list.                                   *)
(***************************************************************************)

removeFile(fileId) ==
    /\ files' = SelectSeq(files, LAMBDA f : f.id # fileId)
    /\ removals' = removals + 1
    /\ UNCHANGED << folders, pathVars, runVars, intakes, now, submitted >>

clearAll ==
    /\ files' = << >>
    /\ sourceFolderName' = Null
    /\ destinationFolderName' = Null
    /\ manualSourcePath' = << >>
    /\ manualDestinationPath' = << >>
    /\ UNCHANGED << folders, runVars, intakes, now, submitted, removals >>

toggleUseNewName(fileId) ==
    /\ files' = [k \in 1..Len(files) |->
                    IF files[k].id = fileId
                    THEN [files[k] EXCEPT !.useNewName = ~files[k].useNewName]
                    ELSE files[k]]
    /\ UNCHANGED << folders, pathVars, runVars, intakes, now, submitted, removals >>

updateFinalFolder(fileId, newFolder) ==
    /\ files' = [k \in 1..Len(files) |->
                    IF files[k].id = fileId
                    THEN [files[k] EXCEPT !.finalFolder = newFolder]
                    ELSE files[k]]
    /\ UNCHANGED << folders, pathVars, runVars, intakes, now, submitted, removals >>

updateSuggestedName(fileId, newName) ==
    /\ files' = [k \in 1..Len(files) |->
                    IF files[k].id = fileId
                    THEN [files[k] EXCEPT !.suggestedName = sanitizeFilename(newName)]
                    ELSE files[k]]
    /\ UNCHANGED << folders, pathVars, runVars, intakes, now, submitted, removals >>

(***************************************************************************)
(* The inputs of the model and the specifications.                         *)
(***************************************************************************)

\* How many files a behaviour of Spec submits in all, over all its selections.
MaxFiles == 4

\* How many times a behaviour calls removeFile.
MaxRemovals == 1

\* How many files more than one batch of the run holds the selection of
\* SpecWindow has.
ExtraFiles == 1

Png(name) == File(name, 1, "image/png", << "Q" >>)

\* Images named a, b, c, ...: more than one batch of the run holds.
ManyImages == [k \in 1..(CONCURRENCY_LIMIT + ExtraFiles) |-> Png(<< LowerCase[k] >>)]

\* A document mammoth cannot read, a file of an unsupported type, and an image.
Mixed ==
    << [File(<< "w" >>, 2, DocxType, << >>) EXCEPT !.corrupt = TRUE],
       File(<< "n" >>, 3, "text/plain", << "x" >>),
       Png(<< "g" >>) >>

\* Two files of the same name and size, picked from two directories.
Twins == << Png(<< "a" >>), Png(<< "a" >>) >>

Selections == {Mixed, Twins}

\* The classifier answers with a folder that is not in the taxonomy yet (the
\* first answer adds it, the later ones find it), or the call fails.
Outcomes ==
    {Failure, Result(<< "t", "a", "x", ":" >>, << "n", "/", "1" >>)}

\* Two files that differ in nothing but the name.
Interchangeable(f, g) == [f EXCEPT !.name = << >>] = [g EXCEPT !.name = << >>]

\* Files that differ in nothing but the name complete their reads in the order
\* of submission: any other order gives the same state up to the names.
ReadOrder(b, i) ==
    \A j \in 1..(i - 1) :
        Interchangeable(intakes[b].filesToProcess[j], intakes[b].filesToProcess[i])
            => intakes[b].reads[j] # "reading"

LiveIds == {files[k].id : k \in 1..Len(files)}

\* The page with small selections, any number of them within MaxFiles; lastOp
\* names the handler of each step.
Next ==
    \/ \E selection \in Selections : \E tick \in TickPoints(selection) :
          /\ submitted + Len(selection) <= MaxFiles
          /\ handleFileSelect(selection, tick)
          /\ lastOp' = "handleFileSelect" /\ UNCHANGED ioVars
    \/ \E b \in 1..Len(intakes) : \E i \in 1..Len(intakes[b].reads) :
          ReadOrder(b, i) /\ readerOnload(b, i) /\ lastOp' = "readerOnload" /\ UNCHANGED ioVars
    \/ \E b \in 1..Len(intakes) : \E i \in 1..Len(intakes[b].reads) :
          extractSettled(b, i) /\ lastOp' = "extractSettled" /\ UNCHANGED ioVars
    \/ organizeFiles /\ lastOp' = "organizeFiles" /\ UNCHANGED ioVars
    \/ \E k \in 1..Len(run.calls) : \E outcome \in Outcomes :
          analyzeSettled(k, outcome) /\ lastOp' = "analyzeSettled" /\ UNCHANGED ioVars
    \/ \E fileId \in LiveIds :
          removals < MaxRemovals /\ removeFile(fileId) /\ lastOp' = "removeFile" /\ UNCHANGED ioVars
    \/ clearAll /\ lastOp' = "clearAll" /\ UNCHANGED ioVars

Spec == Init /\ [][Next]_vars

\* The page with one selection of more files than a batch of the run holds.
NextWindow ==
    \/ /\ intakes = << >>
       /\ handleFileSelect(ManyImages, Len(ManyImages))
       /\ UNCHANGED << lastOp, ioVars >>
    \/ \E b \in 1..Len(intakes) : \E i \in 1..Len(intakes[b].reads) :
          ReadOrder(b, i) /\ readerOnload(b, i) /\ UNCHANGED << lastOp, ioVars >>
    \/ organizeFiles /\ UNCHANGED << lastOp, ioVars >>
    \/ \E k \in 1..Len(run.calls) : \E outcome \in Outcomes :
          analyzeSettled(k, outcome) /\ UNCHANGED << lastOp, ioVars >>
    \/ \E fileId \in LiveIds :
          removals < MaxRemovals /\ removeFile(fileId) /\ UNCHANGED << lastOp, ioVars >>
    \/ clearAll /\ UNCHANGED << lastOp, ioVars >>

SpecWindow == Init /\ [][NextWindow]_vars

(***************************************************************************)
(* Properties of the classification run.                                   *)
(***************************************************************************)

InFlight == {k \in 1..Len(run.calls) : run.calls[k] = "inflight"}

Settled == {k \in 1..Len(run.calls) : run.calls[k] = "settled"}

Terminal(status) == status \in {"done", "error"}

\* The records the run in progress was started with.
SubmittedUids == {run.filesToProcess[k].uid : k \in 1..Len(run.filesToProcess)}

\* C1: at no point of a run are more than 5 analyzeFile calls issued and not
\* yet settled.
C1_AtMostFiveUnsettled == Cardinality(InFlight) <= 5

\* A full batch of 5 calls is in flight and a record waits for the next batch.
C1_Witness ==
    /\ Cardinality(InFlight) = 5
    /\ \E k \in 1..Len(run.calls) : run.calls[k] = "unissued"

\* C2: the calls are issued in submission order in consecutive windows of 5,
\* and a call of a window is issued only when every call of the earlier
\* windows has settled, by success or by failure.
C2_WindowBarrier ==
    \A k \in 1..Len(run.calls) :
        run.calls[k] # "unissued" =>
            /\ \A j \in 1..(((k - 1) \div 5) * 5) : run.calls[j] = "settled"
            /\ \A j \in 1..k : run.calls[j] # "unissued"

\* The sixth call is in flight after a first window in which a call failed and
\* a call succeeded.
C2_Witness ==
    /\ Len(run.calls) >= 6
    /\ run.calls[6] = "inflight"
    /\ \E k \in 1..Len(files) : files[k].errorMessage = AnalysisFailedMessage
    /\ \E k \in 1..Len(files) : files[k].status = "done"

\* Every record the ending run was started with is in the live list with a
\* terminal status.
AllSubmittedTerminal(submittedUids, current) ==
    \A u \in submittedUids :
        \E k \in 1..Len(current) : current[k].uid = u /\ Terminal(current[k].status)

\* Every record the ending run was started with and that is still in the live
\* list has a terminal status.
LiveSubmittedTerminal(submittedUids, current) ==
    \A k \in 1..Len(current) :
        current[k].uid \in submittedUids => Terminal(current[k].status)

\* Progress is at 100 exactly when every call of the last run has settled.
ProgressExact ==
    totalToProcess > 0 =>
        /\ (progressPercentage = 100) = (processedCount = totalToProcess)
        /\ (processedCount = totalToProcess) = ~isProcessing
        /\ isProcessing => processedCount = Cardinality(Settled)
        /\ isProcessing => totalToProcess = Len(run.calls)

\* C3 as claimed: when a run started with N pending records ends, exactly those
\* N records are in the live list with a terminal status, whatever the user did
\* during the run, and progress is at 100 exactly when all N calls have settled.
C3_AsClaimed ==
    [][ /\ (isProcessing /\ ~isProcessing') =>
               AllSubmittedTerminal(SubmittedUids, files')
        /\ ProgressExact' ]_vars

\* C3 as amended: when a run started with N pending records ends, every one of
\* them that is still in the live list has a terminal status (a record removed
\* during the run by removeFile, clearAll or a new selection gets none), and
\* progress is at 100 exactly when all N calls have settled.
C3_Amended ==
    [][ /\ (isProcessing /\ ~isProcessing') =>
               LiveSubmittedTerminal(SubmittedUids, files')
        /\ ProgressExact' ]_vars

\* A run has just ended with a failed call, and a record was removed while it
\* was active.
C3_Witness ==
    /\ lastOp = "analyzeSettled"
    /\ ~isProcessing
    /\ processedCount = totalToProcess
    /\ removals > 0
    /\ Len(files) < totalToProcess
    /\ \E k \in 1..Len(files) : files[k].errorMessage = AnalysisFailedMessage

\* C4: a call of organizeFiles while a run is active, or with no pending record
\* in the live list, issues no call and changes nothing of files, folders,
\* isProcessing, totalToProcess and processedCount.
C4_RefusedCallIsNoOp ==
    [][ (lastOp' = "organizeFiles" /\ (isProcessing \/ PendingFiles(files) = << >>)) =>
            UNCHANGED << files, folders, isProcessing, totalToProcess,
                         processedCount, run, called >> ]_vars

\* organizeFiles was called during a run while the live list held a pending
\* record (one that came in after the run started).
C4_Witness ==
    /\ lastOp = "organizeFiles"
    /\ isProcessing
    /\ InFlight # {}
    /\ \E k \in 1..Len(files) : files[k].status = "pending"

\* The status changes the record state machine allows.
StatusStep(from, to) ==
    \/ from = to
    \/ from = "pending" /\ to = "processing"
    \/ from = "processing" /\ Terminal(to)

\* C5: the status of a record changes only along pending -> processing -> done
\* or pending -> processing -> error, and a terminal status never changes.
C5_StatusMachine ==
    [][ \A j \in 1..Len(files), k \in 1..Len(files') :
            files[j].uid = files'[k].uid =>
                StatusStep(files[j].status, files'[k].status) ]_vars

\* C6: from the start of a run until its first call settles, every record that
\* was pending at the start and is still in the live list has status
\* processing, the records of the later windows included.
C6_EagerProcessing ==
    (isProcessing /\ processedCount = 0) =>
        \A k \in 1..Len(files) :
            files[k].uid \in SubmittedUids => files[k].status = "processing"

\* No call has settled, the sixth call is not issued yet, and its record shows
\* processing.
C6_Witness ==
    /\ isProcessing
    /\ processedCount = 0
    /\ Len(run.calls) >= 6
    /\ run.calls[6] = "unissued"
    /\ \E k \in 1..Len(files) :
          /\ files[k].uid = run.filesToProcess[6].uid
          /\ files[k].status = "processing"

\* The folder list organizeFiles tests for emptiness always holds an entry, so
\* the refusal of lines 336-340 (the case of C7) is never taken.
FolderListNeverEmpty == Len(foldersForSelect) > 0

\* C8: when the call of record r settles, no record but r changes, no record
\* is added, and nothing changes if r is no longer in the live list.
C8_SettleTouchesOneRecord ==
    [][ lastOp' = "analyzeSettled" =>
            \E c \in InFlight :
                /\ Len(files') = Len(files)
                /\ \A j \in 1..Len(files) :
                      files[j].uid # run.filesToProcess[c].uid => files'[j] = files[j] ]_vars

\* C9: whenever isProcessing is false, no record of the live list has status
\* processing.
C9_GuardClearedAfterAllWindows ==
    ~isProcessing => \A k \in 1..Len(files) : files[k].status # "processing"

\* A run of two windows has ended and all its records are in the live list.
C9_Witness ==
    /\ ~isProcessing
    /\ totalToProcess > 5
    /\ processedCount = totalToProcess
    /\ Len(files) = totalToProcess
    /\ \E k \in 1..Len(files) : files[k].errorMessage = AnalysisFailedMessage

\* C10: over all runs no record is handed to analyzeFile twice, a run holds
\* only records that were pending when it started, and a record that came
\* into the live list with status error is never handed to analyzeFile.
C10_CalledAtMostOnce ==
    /\ \A a, b \in 1..Len(called) : a # b => called[a] # called[b]
    /\ \A k \in 1..Len(run.filesToProcess) : run.filesToProcess[k].status = "pending"
    /\ \A k \in 1..Len(files) :
          files[k].errorMessage \in {UnsupportedMessage, DocxFailedMessage} =>
              \A a \in 1..Len(called) : called[a] # files[k].uid

\* A second run is active while the live list holds a record whose call failed
\* in an earlier run.
C10_Witness ==
    /\ isProcessing
    /\ Len(called) > totalToProcess
    /\ \E k \in 1..Len(files) :
          /\ files[k].errorMessage = AnalysisFailedMessage
          /\ files[k].uid \notin SubmittedUids

(***************************************************************************)
(* A classifier call that never settles.                                   *)
(***************************************************************************)

\* The request of call k gets no answer: the promise of generateContent stays
\* pending for ever, and so does the promise of analyzeFile.
callHangs(k) ==
    /\ k \in 1..Len(run.calls)
    /\ run.calls[k] = "inflight"
    /\ \A j \in 1..Len(run.calls) : run.calls[j] # "hung"
    /\ run' = [run EXCEPT !.calls[k] = "hung"]
    /\ UNCHANGED << folders, files, isProcessing, processedCount, totalToProcess,
                    pathVars, intakes, now, called, submitted, removals >>

\* The classifier answers call k, with a result or with a failure.
Answered(k) ==
    \E outcome \in Outcomes : analyzeSettled(k, outcome) /\ UNCHANGED << lastOp, ioVars >>

\* One selection of more files than a batch holds, one run, and at most one call
\* of the run that never settles.
NextHung ==
    \/ /\ intakes = << >>
       /\ handleFileSelect(ManyImages, Len(ManyImages))
       /\ UNCHANGED << lastOp, ioVars >>
    \/ \E b \in 1..Len(intakes) : \E i \in 1..Len(intakes[b].reads) :
          ReadOrder(b, i) /\ readerOnload(b, i) /\ UNCHANGED << lastOp, ioVars >>
    \/ organizeFiles /\ UNCHANGED << lastOp, ioVars >>
    \/ \E k \in 1..Len(run.calls) : callHangs(k) /\ UNCHANGED << lastOp, ioVars >>
    \/ \E k \in 1..Len(run.calls) : Answered(k)

\* Every call that has not been marked as hanging is answered in the end, with
\* a result or with a failure.
AnsweredInTheEnd == \A k \in 1..Len(ManyImages) : WF_vars(Answered(k))

SpecHung == Init /\ [][NextHung]_vars /\ AnsweredInTheEnd

Hung == {k \in 1..Len(run.calls) : run.calls[k] = "hung"}

\* Where call k of the run in progress stands; "none" when there is no such call.
CallState(k) == IF k \in 1..Len(run.calls) THEN run.calls[k] ELSE "none"

\* Calls k and h belong to the same window of the run.
SameWindow(k, h) == (k - 1) \div CONCURRENCY_LIMIT = (h - 1) \div CONCURRENCY_LIMIT

\* The record call k was issued for is in the live list with a terminal status.
RecordTerminal(k) ==
    /\ k \in 1..Len(run.filesToProcess)
    /\ \E j \in 1..Len(files) :
          /\ files[j].uid = run.filesToProcess[k].uid
          /\ Terminal(files[j].status)

\* While a call hangs the run stays active and no call of a later window is
\* issued.
WindowStalls ==
    \A h \in Hung :
        /\ isProcessing
        /\ \A k \in 1..Len(run.calls) :
              (k - 1) \div CONCURRENCY_LIMIT > (h - 1) \div CONCURRENCY_LIMIT
                  => run.calls[k] = "unissued"

\* C11: if one call of a window never settles, every other call of that window
\* still settles and its record reaches done or error, while no call of a later
\* window is ever issued and isProcessing stays true.
C11_HungCallStallsItsWindowOnly ==
    /\ [](WindowStalls)
    /\ \A k \in 1..Len(ManyImages) :
          (\E h \in Hung : SameWindow(k, h) /\ CallState(k) = "inflight")
              ~> (CallState(k) = "settled" /\ RecordTerminal(k))

\* A call of the first window hangs, its four siblings have settled, and the
\* record of the second window still waits.
C11_Witness ==
    /\ \E h \in Hung :
          /\ h <= CONCURRENCY_LIMIT
          /\ \A k \in 1..CONCURRENCY_LIMIT :
                k # h => run.calls[k] = "settled" /\ RecordTerminal(k)
    /\ \E k \in 1..Len(run.calls) : run.calls[k] = "unissued"
    /\ \E j \in 1..Len(files) : files[j].status = "processing"

(***************************************************************************)
(* Editing the folder configuration and scanning a destination directory.  *)
(***************************************************************************)

\* A variant that keeps the destination path the user had before the edit.
onFoldersInputKeepsPath(value) ==
    /\ folders' = value
    /\ destinationFolderName' = Null
    /\ UNCHANGED << files, sourceFolderName, manualSourcePath, manualDestinationPath,
                    runVars, intakes, now, submitted, removals, downloads, viewer >>

\* onFoldersInput with event.target.value = value.
onFoldersInput(value) ==
    /\ folders' = value
    /\ destinationFolderName' = Null
    /\ manualDestinationPath' = << >>
    /\ UNCHANGED << files, sourceFolderName, manualSourcePath, runVars, intakes, now,
                    submitted, removals, downloads, viewer >>

onManualSourcePathInput(value) ==
    /\ manualSourcePath' = value
    /\ UNCHANGED << folders, files, sourceFolderName, destinationFolderName,
                    manualDestinationPath, runVars, intakes, now, submitted, removals,
                    downloads, viewer >>

onManualDestinationPathInput(value) ==
    /\ manualDestinationPath' = value
    /\ UNCHANGED << folders, files, sourceFolderName, destinationFolderName,
                    manualSourcePath, runVars, intakes, now, submitted, removals,
                    downloads, viewer >>

\* The file `file` as a directory picker reports it, at `path` below the
\* directory the user picked (webkitRelativePath).
InDirectory(file, path) == [file EXCEPT !.webkitRelativePath = path]

\* pathParts after shift() and pop(): the directories between the picked
\* directory and the file.
InnerParts(relativePath) ==
    LET pathParts == split(relativePath, "/")
        shifted == Tail(pathParts)
    IN  IF shifted = << >> THEN << >> ELSE SubSeq(shifted, 1, Len(shifted) - 1)

\* The values the loop over pathParts adds to folderNames, in order.
RECURSIVE ParentPaths(_, _)
ParentPaths(pathParts, currentPath) ==
    IF pathParts = << >> THEN << >>
    ELSE LET next == IF currentPath # << >>
                     THEN currentPath \o << "/" >> \o Head(pathParts)
                     ELSE Head(pathParts)
         IN  << next >> \o ParentPaths(Tail(pathParts), next)

\* folderNames after the loop over allFiles, in insertion order.
RECURSIVE ScannedFolders(_)
ScannedFolders(allFiles) ==
    IF allFiles = << >> THEN << >>
    ELSE LET front == ScannedFolders(SubSeq(allFiles, 1, Len(allFiles) - 1))
             relativePath == allFiles[Len(allFiles)].webkitRelativePath
         IN  IF relativePath = << >> THEN front
             ELSE Unique(front \o ParentPaths(InnerParts(relativePath), << >>))

\* The value the scan sets the folders signal to (lines 164-170).
FoldersAfterScan(current, folderNames) ==
    IF Len(folderNames) > 0 THEN join(Unique(folderNames), CommaSpace) ELSE << >>

\* handleCategoryFolderSelect with element.files = allFiles.
handleCategoryFolderSelect(allFiles) ==
    /\ IF Len(allFiles) = 0
       THEN UNCHANGED << folders, destinationFolderName, manualDestinationPath >>
       ELSE LET firstFileRelativePath == allFiles[1].webkitRelativePath
                pathParts == split(firstFileRelativePath, "/")
            IN  /\ IF firstFileRelativePath # << >> /\ Len(pathParts) > 1
                   THEN /\ destinationFolderName' = pathParts[1]
                        /\ manualDestinationPath' = pathParts[1]
                   ELSE UNCHANGED << destinationFolderName, manualDestinationPath >>
                /\ folders' = FoldersAfterScan(folders, ScannedFolders(allFiles))
    /\ UNCHANGED << files, sourceFolderName, manualSourcePath, runVars, intakes, now,
                    submitted, removals, downloads, viewer >>

\* How many pieces a folder configuration typed by the user is made of.
MaxPieces == 3

\* What the user types is made of these pieces: letters in both cases, the
\* separators of the configuration and of paths, a character sanitizeFolderPath
\* strips, and the fallback category in lower case.
Pieces ==
    { << "a" >>, << "A" >>, << "," >>, << " " >>, << ":" >>, << "/" >>,
      toLowerCase(Miscellaneous) }

RECURSIVE StringsOf(_, _)
StringsOf(pieces, n) ==
    IF n = 0 THEN { << >> }
    ELSE LET shorter == StringsOf(pieces, n - 1)
         IN  shorter \cup {s \o p : s \in shorter, p \in pieces}

FolderStrings == StringsOf(Pieces, MaxPieces)

Doc(path) == InDirectory(File(<< "f" >>, 1, PdfType, << "Q" >>), path)

\* What a directory picker reports: a directory without subdirectories, and a
\* directory D with the subdirectories a, a/A and b.
Scans ==
    { << Doc(<< "D", "/", "f" >>) >>,
      << Doc(<< "D", "/", "a", "/", "A", "/", "f" >>),
         Doc(<< "D", "/", "b", "/", "f" >>),
         Doc(<< "D", "/", "a", "/", "f" >>) >> }

\* The folder configuration under every edit and every scan.
NextTaxonomy ==
    \/ \E value \in FolderStrings :
          /\ onFoldersInput(value)
          /\ lastOp' = "onFoldersInput" /\ arg' = value
    \/ \E allFiles \in Scans :
          /\ handleCategoryFolderSelect(allFiles)
          /\ lastOp' = "handleCategoryFolderSelect" /\ arg' = << >>

SpecTaxonomy == Init /\ [][NextTaxonomy]_vars

(***************************************************************************)
(* Properties of the folder taxonomy.                                      *)
(***************************************************************************)

EqualIgnoringCase(a, b) == toLowerCase(a) = toLowerCase(b)

\* C12: for every folder configuration, foldersForSelect holds no two entries
\* that are equal when compared case-insensitively, and of the entries of the
\* configuration that differ only in case the first one is kept.
C12_CaseInsensitiveDedupe ==
    LET list == foldersForSelect
        typed == SanitizedList(folders)
    IN  /\ \A i, j \in 1..Len(list) :
              i # j => ~EqualIgnoringCase(list[i], list[j])
        /\ \A i \in 1..Len(typed) :
              \E j \in 1..Len(list) : list[j] = FindIgnoreCase(typed, typed[i])

\* list is in strictly ascending code unit order.
Ascending(list) == \A i \in 1..(Len(list) - 1) : StrLess(list[i], list[i + 1])

\* C13 as claimed: for every folder configuration, foldersForSelect is sorted in
\* ascending order and holds the entry "Miscellaneous", so it is never empty.
C13_AsClaimed ==
    /\ Ascending(foldersForSelect)
    /\ \E i \in 1..Len(foldersForSelect) : foldersForSelect[i] = Miscellaneous
    /\ Len(foldersForSelect) > 0

\* C13 as amended: for every folder configuration, foldersForSelect is sorted in
\* ascending order and holds an entry equal to "Miscellaneous" when compared
\* case-insensitively, so it is never empty.
C13_Amended ==
    /\ Ascending(foldersForSelect)
    /\ HasIgnoreCase(foldersForSelect, Miscellaneous)
    /\ Len(foldersForSelect) > 0

\* A scan of a destination without subfolders has emptied the configuration,
\* and the fallback category is all that can be selected.
C13_Witness ==
    /\ lastOp = "handleCategoryFolderSelect"
    /\ folders = << >>
    /\ foldersForSelect = << Miscellaneous >>

\* C14: normalising the taxonomy twice gives what normalising it once gives:
\* foldersForSelect of the comma-joined foldersForSelect is foldersForSelect,
\* and sanitizeFolderPath applied twice to a segment of the configuration gives
\* what it gives applied once.
C14_NormalizationIdempotent ==
    LET segments == split(folders, ",")
    IN  /\ foldersForSelectOf(join(foldersForSelect, << "," >>)) = foldersForSelect
        /\ \A i \in 1..Len(segments) :
              sanitizeFolderPath(sanitizeFolderPath(segments[i]))
                  = sanitizeFolderPath(segments[i])

(***************************************************************************)
(* Picking a source directory, and the page with its path fields.          *)
(***************************************************************************)

\* A filter that looks at the depth of a file only.
TopLevelOnly(allFiles) ==
    SelectSeq(allFiles, LAMBDA file :
        /\ file.webkitRelativePath # << >>
        /\ Len(split(file.webkitRelativePath, "/")) = 2)

\* The files of a picked directory that lie directly in it and can be analyzed.
TopLevelSupported(allFiles) ==
    SelectSeq(allFiles, LAMBDA file :
        /\ file.webkitRelativePath # << >>
        /\ Len(split(file.webkitRelativePath, "/")) = 2
        /\ isSupportedFileType(file.type))

\* handleSourceFolderSelect with element.files = allFiles.
handleSourceFolderSelect(allFiles, tick) ==
    /\ IF Len(allFiles) = 0
       THEN UNCHANGED << files, sourceFolderName, manualSourcePath, intakes, now,
                         submitted >>
       ELSE LET firstFileRelativePath == allFiles[1].webkitRelativePath
                pathParts == split(firstFileRelativePath, "/")
                filesToProcess == TopLevelSupported(allFiles)
            IN  /\ IF firstFileRelativePath # << >> /\ Len(pathParts) > 1
                   THEN /\ sourceFolderName' = pathParts[1]
                        /\ manualSourcePath' = pathParts[1]
                   ELSE UNCHANGED << sourceFolderName, manualSourcePath >>
                /\ processFiles(<< >>, filesToProcess, tick)
                /\ submitted' = submitted + Len(filesToProcess)
    /\ UNCHANGED << folders, destinationFolderName, manualDestinationPath, runVars,
                    removals, downloads, viewer >>

\* A picked directory S: two images in it (the name of one holds a quote), a
\* text file, and an image in a subdirectory.
SourceDirectory ==
    << InDirectory(Png(<< "p" >>), << "S", "/", "p" >>),
       InDirectory(File(<< "n" >>, 3, "text/plain", << "x" >>), << "S", "/", "n" >>),
       InDirectory(Png(<< "q" >>), << "S", "/", "u", "/", "q" >>),
       InDirectory(Png(<< "r", "'" >>), << "S", "/", "r", "'" >>) >>

\* What the user types into the folder configuration in SpecPaths.
FolderEdits == { << >>, << "a", ",", " ", "b" >>, << "B", ":" >> }

\* What the user types into a path field: an absolute path, a relative one, a
\* path with a quote and a space in front.
PathInputs ==
    { << "C", ":", "\\", "I", "n" >>, << "m", "y" >>, << " ", "/", "o", "'", "s" >> }

\* The page before any classification: directories are picked, the folder
\* configuration and the path fields are edited.
NextPaths ==
    \/ /\ intakes = << >>
       /\ handleSourceFolderSelect(SourceDirectory, Len(TopLevelSupported(SourceDirectory)))
       /\ lastOp' = "handleSourceFolderSelect" /\ arg' = << >>
    \/ \E b \in 1..Len(intakes) : \E i \in 1..Len(intakes[b].reads) :
          /\ ReadOrder(b, i) /\ readerOnload(b, i)
          /\ lastOp' = "readerOnload" /\ UNCHANGED ioVars
    \/ \E allFiles \in Scans :
          /\ handleCategoryFolderSelect(allFiles)
          /\ lastOp' = "handleCategoryFolderSelect" /\ arg' = << >>
    \/ \E value \in FolderEdits :
          /\ onFoldersInput(value)
          /\ lastOp' = "onFoldersInput" /\ arg' = value
    \/ \E value \in PathInputs :
          /\ onManualSourcePathInput(value)
          /\ lastOp' = "onManualSourcePathInput" /\ arg' = value
    \/ \E value \in PathInputs :
          /\ onManualDestinationPathInput(value)
          /\ lastOp' = "onManualDestinationPathInput" /\ arg' = value

SpecPaths == Init /\ [][NextPaths]_vars

\* C18: every manual edit of the folder configuration sets destinationFolderName
\* to null and manualDestinationPath to the empty string, whatever they were,
\* and changes nothing of files, sourceFolderName and manualSourcePath.
C18_FolderEditResetsDestination ==
    [][ lastOp' = "onFoldersInput" =>
            /\ folders' = arg'
            /\ destinationFolderName' = Null
            /\ manualDestinationPath' = << >>
            /\ UNCHANGED << files, sourceFolderName, manualSourcePath >> ]_vars

\* The folder configuration was edited after a source directory with files and
\* a destination directory were picked and the destination path was retyped.
C18_Witness ==
    /\ lastOp = "onFoldersInput"
    /\ Len(files) > 0
    /\ sourceFolderName # Null
    /\ manualSourcePath # << >>
    /\ destinationFolderName = Null
    /\ manualDestinationPath = << >>
    /\ folders = << "B", ":" >>

(***************************************************************************)
(* Classifier answers and the merge of suggested folders.                  *)
(***************************************************************************)

\* How many files the selection of SpecMerge has: the calls of one window.
MergeFiles == 2

Siblings == [k \in 1..MergeFiles |-> Png(<< LowerCase[k] >>)]

\* The folder configurations typed before the run of SpecMerge.
MergeConfigs == { << "a" >>, << ":", " ", "a" >> }

\* What the classifier answers: a new folder, the same folder in another case,
\* an existing folder in another case together with a file name that holds
\* illegal characters, folders with a stripped character next to a space, and
\* a padded path with both separators, a doubled separator and a quote.
MergeOutcomes ==
    { Failure,
      Result(<< "b" >>, << "n" >>),
      Result(<< "B" >>, << "n" >>),
      Result(<< "A" >>, << " ", "n", ":", "/", "1", " " >>),
      Result(<< ":", " ", "b" >>, << "n" >>),
      Result(<< " ", "a" >>, << "n" >>),
      Result(<< " ", "x", "\\", "/", "y", "?", " " >>, << "n", "'", "\\", "s" >>) }

\* One selection, a folder configuration typed before the run, and one run;
\* arg holds the answer of the classifier a step has handled.
NextMerge ==
    \/ /\ intakes = << >>
       /\ handleFileSelect(Siblings, Len(Siblings))
       /\ lastOp' = "handleFileSelect" /\ UNCHANGED ioVars
    \/ \E b \in 1..Len(intakes) : \E i \in 1..Len(intakes[b].reads) :
          /\ ReadOrder(b, i) /\ readerOnload(b, i)
          /\ lastOp' = "readerOnload" /\ UNCHANGED ioVars
    \/ \E value \in MergeConfigs :
          /\ called = << >>
          /\ folders = DefaultFolders
          /\ onFoldersInput(value)
          /\ lastOp' = "onFoldersInput" /\ arg' = value
    \/ organizeFiles /\ lastOp' = "organizeFiles" /\ UNCHANGED ioVars
    \/ \E k \in 1..Len(run.calls) : \E outcome \in MergeOutcomes :
          /\ analyzeSettled(k, outcome)
          /\ lastOp' = "analyzeSettled" /\ arg' = outcome /\ UNCHANGED << downloads, viewer >>

SpecMerge == Init /\ [][NextMerge]_vars

\* The characters of s at the positions in `keep`, in their order.
AtPositions(s, keep) ==
    [j \in 1..Cardinality(keep) |->
        s[CHOOSE i \in keep : Cardinality({h \in keep : h < i}) = j - 1]]

\* s with exactly the characters of `set` taken out.
Without(s, set) == AtPositions(s, {i \in 1..Len(s) : s[i] \notin set})

\* s from its first to its last character that is no white space.
Unpadded(s) ==
    LET inked == {i \in 1..Len(s) : s[i] # " "}
    IN  AtPositions(s, {i \in 1..Len(s) : \E a, b \in inked : a <= i /\ i <= b})

\* s with "/" for every maximal run of the separators / and \.
OneSeparatorPerRun(s) ==
    LET isSep(i) == s[i] \in {"/", "\\"}
        kept == AtPositions(s, {i \in 1..Len(s) :
                                   isSep(i) => (i = Len(s) \/ ~isSep(i + 1))})
    IN  [j \in 1..Len(kept) |-> IF kept[j] = "\\" THEN "/" ELSE kept[j]]

\* The records a step has just set to done.
JustDone == {j \in 1..Len(files) :
                /\ j <= Len(files')
                /\ files[j].status = "processing"
                /\ files'[j].status = "done"}

\* C15 as claimed: for every answer of the classifier, the sanitized folder is
\* the answered folder with exactly the characters < > : " | ? * taken out, and
\* the sanitized file name is the answered name with exactly those characters
\* and / and \ taken out.
C15_AsClaimed ==
    [][ (lastOp' = "analyzeSettled" /\ ~arg'.failed) =>
            \A j \in JustDone :
                /\ files'[j].suggestion = Without(arg'.folder, IllegalFolderChars)
                /\ files'[j].suggestedName =
                       Without(arg'.suggestedFilename, IllegalFolderChars \cup {"/", "\\"})
      ]_vars

\* C15 as amended: the sanitized folder is the answered folder without the white
\* space around it, with exactly the characters < > : " | ? * taken out and then
\* every run of / and \ replaced by one /; the sanitized file name is the
\* answered name without the white space around it, with exactly those
\* characters and / and \ taken out; nothing else is taken out or changed.
C15_Amended ==
    [][ (lastOp' = "analyzeSettled" /\ ~arg'.failed) =>
            \A j \in JustDone :
                /\ files'[j].suggestion =
                       OneSeparatorPerRun(Without(Unpadded(arg'.folder), IllegalFolderChars))
                /\ files'[j].suggestedName =
                       Without(Unpadded(arg'.suggestedFilename),
                               IllegalFolderChars \cup {"/", "\\"})
      ]_vars

\* The classifier has answered " x\/y? " and "n'\s", and a record holds the
\* folder "x/y" and the name "n's".
C15_Witness ==
    /\ lastOp = "analyzeSettled"
    /\ \E j \in 1..Len(files) :
          /\ files[j].status = "done"
          /\ files[j].suggestion = << "x", "/", "y" >>
          /\ files[j].suggestedName = << "n", "'", "s" >>

\* C16: when the classifier answers with a folder that equals an entry of the
\* taxonomy ignoring case, the folder configuration stays as it is and the
\* finalFolder of the record is that entry in its own casing.
C16_ExistingFolderIsReused ==
    [][ (/\ lastOp' = "analyzeSettled"
         /\ ~arg'.failed
         /\ HasIgnoreCase(foldersForSelect, arg'.folder)) =>
            /\ folders' = folders
            /\ \A j \in JustDone :
                  files'[j].finalFolder = FindIgnoreCase(foldersForSelect, arg'.folder)
      ]_vars

\* The records of the run in progress that are done after the step.
DoneOfRun == {j \in 1..Len(files') :
                 /\ files'[j].uid \in SubmittedUids
                 /\ files'[j].status = "done"}

\* C17: when a run ends, whatever the order its calls settled in, the folder of
\* every call that succeeded is in the taxonomy (no addition is lost), and the
\* run has made no two entries that are equal ignoring case.
C17_MergesAreNotLost ==
    [][ (isProcessing /\ ~isProcessing') =>
            LET after == foldersForSelectOf(folders')
            IN  /\ \A j \in DoneOfRun : HasIgnoreCase(after, files'[j].finalFolder)
                /\ \A a, b \in 1..Len(after) :
                      (a # b /\ EqualIgnoringCase(after[a], after[b])) =>
                          \A c \in {a, b} :
                              \E d \in 1..Len(run.folderList) :
                                  run.folderList[d] = after[c]
      ]_vars

(***************************************************************************)
(* The PowerShell script: generateAndDownloadScript.                       *)
(*                                                                         *)
(* A script is the sequence of its statements.  A statement holds the text *)
(* the template puts between its single quotes, computed as the code       *)
(* computes it, and, as history, the record it was written for.            *)
(***************************************************************************)

\* What JavaScript takes for true of an optional string.
Truthy(string) == string # Undefined /\ string # << >>

\* A value put between the quotes as it is.
QuoteLeftAlone(s) == s

\* s.replace(/'/g, "''")
Quote(s) == ReplaceChar(s, "'", << "'", "'" >>)

\* s.replace(/\//g, '\\')
ToBackslashes(s) == ReplaceChar(s, "/", << "\\" >>)

\* path.split(/[/\\]+/).pop(): what follows the last separator.
LastPathPart(path) ==
    LET seps == {i \in 1..Len(path) : path[i] \in {"/", "\\"}}
    IN  IF seps = {} THEN path
        ELSE SubSeq(path, (CHOOSE i \in seps : \A j \in seps : j <= i) + 1, Len(path))

\* pathParts.pop()?.replace(/'/g, "''") || file.name.replace(/'/g, "''")
OriginalFileNameOnly(file) ==
    LET last == Quote(LastPathPart(file.originalPath))
    IN  IF last # << >> THEN last ELSE Quote(file.name)

\* const suggestedName of the loop over analyzedFiles.
SuggestedNameForScript(file) ==
    Quote(sanitizeFilename(IF Truthy(file.suggestedName) THEN file.suggestedName
                           ELSE << >>))

\* A generator that renames whenever a suggestion exists.
NewNameAlways(file) ==
    IF SuggestedNameForScript(file) # << >>
    THEN SuggestedNameForScript(file) ELSE OriginalFileNameOnly(file)

\* file.useNewName && suggestedName ? suggestedName : originalFileNameOnly
NewName(file) ==
    IF file.useNewName /\ SuggestedNameForScript(file) # << >>
    THEN SuggestedNameForScript(file) ELSE OriginalFileNameOnly(file)

Backslash == << "\\" >>

\* A list of folders that names a folder once for every record bound for it.
FoldersToCreateRepeated(analyzedFiles) ==
    SelectSeq([k \in 1..Len(analyzedFiles) |-> analyzedFiles[k].finalFolder],
              LAMBDA folder : Truthy(folder) /\ folder # DoNotMove)

\* [...new Set(analyzedFiles.map(f => f.finalFolder).filter(...))]
FoldersToCreate(analyzedFiles) ==
    Unique(SelectSeq([k \in 1..Len(analyzedFiles) |-> analyzedFiles[k].finalFolder],
                     LAMBDA folder : Truthy(folder) /\ folder # DoNotMove))

\* The folder creation guard of one folder.
CreateStatement(destinationPath, folder) ==
    [kind |-> "create",
     folderPath |-> Quote(destinationPath) \o Backslash \o Quote(ToBackslashes(folder))]

\* The statements of one record: a guarded move, a guarded rename, or nothing.
FileStatements(sourcePath, destinationPath, file) ==
    LET originalFileNameOnly == OriginalFileNameOnly(file)
        sourceFilePath == Quote(sourcePath) \o Backslash \o originalFileNameOnly
        newName == NewName(file)
        destinationFolder == file.finalFolder
    IN  IF Truthy(destinationFolder) /\ destinationFolder # DoNotMove
        THEN LET destFolderForScript == Quote(ToBackslashes(destinationFolder))
             IN  << [kind |-> "move", uid |-> file.uid,
                     sourceFile |-> sourceFilePath,
                     destFile |-> Quote(destinationPath) \o Backslash
                                      \o destFolderForScript \o Backslash \o newName,
                     shownName |-> originalFileNameOnly,
                     shownTarget |-> destFolderForScript \o Backslash \o newName] >>
        ELSE IF file.useNewName /\ newName # originalFileNameOnly
        THEN << [kind |-> "rename", uid |-> file.uid,
                 sourceFile |-> sourceFilePath,
                 newName |-> newName,
                 shownName |-> originalFileNameOnly] >>
        ELSE << >>

RECURSIVE Flatten(_)
Flatten(lists) == IF lists = << >> THEN << >> ELSE Head(lists) \o Flatten(Tail(lists))

\* scriptContent between the header and the closing lines.
ScriptOf(analyzedFiles, sourcePath, destinationPath) ==
    LET foldersToCreate == FoldersToCreate(analyzedFiles)
    IN  [k \in 1..Len(foldersToCreate) |->
            CreateStatement(destinationPath, foldersToCreate[k])]
        \o Flatten([k \in 1..Len(analyzedFiles) |->
                       FileStatements(sourcePath, destinationPath, analyzedFiles[k])])

\* The records the script is written for.
AnalyzedFiles(current) == SelectSeq(current, LAMBDA f : f.status = "done")

\* The check the computed signal canDownloadScript makes for one path.
PathValid(path) ==
    (\E i \in 1..Len(path) : path[i] = ":") \/ (path # << >> /\ path[1] = "/")

canDownloadScript ==
    /\ \E k \in 1..Len(files) : files[k].status = "done"
    /\ PathValid(manualSourcePath)
    /\ PathValid(manualDestinationPath)

\* The early return of generateAndDownloadScript (line 481).
Refused(analyzedFiles, sourcePath, destinationPath) ==
    Len(analyzedFiles) = 0 \/ sourcePath = << >> \/ destinationPath = << >>

generateAndDownloadScript ==
    LET analyzedFiles == AnalyzedFiles(files)
        sourcePath == trim(manualSourcePath)
        destinationPath == trim(manualDestinationPath)
    IN  /\ IF Refused(analyzedFiles, sourcePath, destinationPath)
           THEN UNCHANGED downloads
           ELSE downloads' = Append(downloads,
                                    ScriptOf(analyzedFiles, sourcePath, destinationPath))
        /\ UNCHANGED << folders, files, pathVars, runVars, intakes, now, submitted,
                        removals, viewer >>

\* What the classifier answers in SpecScript: a nested folder with a quote and
\* a name with a quote, or a plain folder and a name that is the name of the
\* file p followed by a space once its colon is stripped.
ScriptOutcomes ==
    { Failure,
      Result(<< "a", "/", "b", "'" >>, << "n", "'" >>),
      Result(<< "c" >>, << "p", " ", ":" >>) }

\* What the user picks in the folder select of a record, and types as its name.
FolderChoices == { DoNotMove }
NameEdits == { << >>, << "m" >> }

\* The paths typed in SpecScript: absolute, relative, and one with a space in
\* front and a quote.
ScriptPaths == { << "C", ":", "\\", "I" >>, << "m", "y" >>, << " ", "/", "o", "'" >> }

\* The records whose decisions the user edits in SpecScript.
DoneIds == {files[k].id : k \in {j \in 1..Len(files) : files[j].status = "done"}}

\* The user has typed no path yet, or no destination path yet.
NoPathTyped == manualSourcePath \notin ScriptPaths /\ manualDestinationPath \notin ScriptPaths
NoDestinationTyped == manualDestinationPath \notin ScriptPaths

\* From a picked source directory to the download of the script: one run, then
\* the user's decisions on the records, then the source path, then the
\* destination path, and at any moment one click on download.  (The handlers of
\* the three stages write different signals, so another order of them gives no
\* other state.)
NextScript ==
    /\ lastOp # "generateAndDownloadScript"
    /\ \/ /\ intakes = << >>
          /\ handleSourceFolderSelect(SourceDirectory,
                                      Len(TopLevelSupported(SourceDirectory)))
          /\ UNCHANGED << lastOp, arg >>
       \/ \E b \in 1..Len(intakes) : \E i \in 1..Len(intakes[b].reads) :
             ReadOrder(b, i) /\ readerOnload(b, i) /\ UNCHANGED << lastOp, ioVars >>
       \/ organizeFiles /\ UNCHANGED << lastOp, ioVars >>
       \/ \E k \in 1..Len(run.calls) : \E outcome \in ScriptOutcomes :
             analyzeSettled(k, outcome) /\ UNCHANGED << lastOp, ioVars >>
       \/ \E fileId \in DoneIds :
             /\ ~isProcessing /\ called # << >> /\ NoPathTyped
             /\ toggleUseNewName(fileId) /\ UNCHANGED << lastOp, ioVars >>
       \/ \E fileId \in DoneIds : \E newFolder \in FolderChoices :
             /\ ~isProcessing /\ called # << >> /\ NoPathTyped
             /\ updateFinalFolder(fileId, newFolder) /\ UNCHANGED << lastOp, ioVars >>
       \/ \E fileId \in DoneIds : \E newName \in NameEdits :
             /\ ~isProcessing /\ called # << >> /\ NoPathTyped
             /\ updateSuggestedName(fileId, newName) /\ UNCHANGED << lastOp, ioVars >>
       \/ \E value \in ScriptPaths :
             /\ ~isProcessing /\ called # << >> /\ NoDestinationTyped
             /\ onManualSourcePathInput(value) /\ UNCHANGED << lastOp, arg >>
       \/ \E value \in ScriptPaths :
             /\ ~isProcessing /\ called # << >>
             /\ onManualDestinationPathInput(value) /\ UNCHANGED << lastOp, arg >>
       \/ /\ generateAndDownloadScript
          /\ lastOp' = "generateAndDownloadScript" /\ UNCHANGED arg

SpecScript == Init /\ [][NextScript]_vars

(***************************************************************************)
(* Properties of the generated script.                                     *)
(***************************************************************************)

\* path is not empty and holds a colon or starts with a root separator.
HasAbsoluteMarker(path) ==
    /\ path # << >>
    /\ \/ \E i \in 1..Len(path) : path[i] = ":"
       \/ path[1] \in {"/", "\\"}

\* C19: generateAndDownloadScript produces no script whenever the source path
\* or the destination path is empty or lacks an absolute-path marker (a colon,
\* or a root separator in front).
C19_RelativePathsRefused ==
    [][ (/\ lastOp' = "generateAndDownloadScript"
         /\ ~(HasAbsoluteMarker(manualSourcePath)
                 /\ HasAbsoluteMarker(manualDestinationPath))) =>
            downloads' = downloads ]_vars

\* The text a single-quoted PowerShell literal stands for: '' read as '.
RECURSIVE Denoted(_)
Denoted(literal) ==
    IF literal = << >> THEN << >>
    ELSE IF Len(literal) > 1 /\ literal[1] = "'" /\ literal[2] = "'"
         THEN << "'" >> \o Denoted(SubSeq(literal, 3, Len(literal)))
         ELSE << Head(literal) >> \o Denoted(Tail(literal))

\* The longest end of path that holds no separator.
FileNameOf(path) ==
    LET n == Len(path)
        start == CHOOSE i \in 1..(n + 1) :
                    /\ \A j \in i..n : path[j] \notin {"/", "\\"}
                    /\ i > 1 => path[i - 1] \in {"/", "\\"}
    IN  SubSeq(path, start, n)

\* s with every / written as \.
WithBackslashes(s) == [i \in 1..Len(s) |-> IF s[i] = "/" THEN "\\" ELSE s[i]]

\* finalFolder names a folder: it is set, not empty, and not the sentinel.
RealFolder(file) ==
    file.finalFolder # Undefined /\ file.finalFolder # << >> /\ file.finalFolder # DoNotMove

\* The statements of the script that were written for the record `file`.
StatementsFor(script, file) ==
    SelectSeq(script, LAMBDA st : st.kind # "create" /\ st.uid = file.uid)

\* The script of the step is made of the moves the operators `source` and
\* `destination` give: one guarded move for every done record with a real
\* folder, and no statement for a record that is not done.
MovesAre(source(_), destination(_)) ==
    (lastOp' = "generateAndDownloadScript" /\ downloads' # downloads) =>
        LET script == downloads'[Len(downloads')]
        IN  \A k \in 1..Len(files) :
                LET file == files[k]
                    mine == StatementsFor(script, file)
                IN  /\ (file.status = "done" /\ RealFolder(file)) =>
                          /\ Len(mine) = 1
                          /\ mine[1].kind = "move"
                          /\ Denoted(mine[1].sourceFile) = source(file)
                          /\ Denoted(mine[1].destFile) = destination(file)
                    /\ file.status # "done" => mine = << >>

\* The effective name as the claim has it.
ClaimedName(file) ==
    IF file.useNewName /\ file.suggestedName # Undefined /\ file.suggestedName # << >>
    THEN file.suggestedName ELSE FileNameOf(file.originalPath)

ClaimedSource(file) == manualSourcePath \o << "\\" >> \o FileNameOf(file.originalPath)

ClaimedDestination(file) ==
    manualDestinationPath \o << "\\" >> \o file.finalFolder \o << "\\" >> \o ClaimedName(file)

\* C20 as claimed: for every done record with a real finalFolder the script
\* holds exactly one guarded move, from source\<last segment of originalPath>
\* to destination\finalFolder\<effective name>, the effective name being
\* suggestedName when useNewName is set and suggestedName is not empty, and
\* the original file name otherwise; a record that is not done gets no
\* statement.
C20_AsClaimed == [][ MovesAre(ClaimedSource, ClaimedDestination) ]_vars

\* suggestedName as the script writes it: sanitized once more.
CleanName(file) ==
    IF file.suggestedName = Undefined THEN << >>
    ELSE Without(Unpadded(file.suggestedName), IllegalFolderChars \cup {"/", "\\"})

AmendedName(file) ==
    IF file.useNewName /\ CleanName(file) # << >>
    THEN CleanName(file) ELSE FileNameOf(file.originalPath)

AmendedSource(file) ==
    Unpadded(manualSourcePath) \o << "\\" >> \o FileNameOf(file.originalPath)

AmendedDestination(file) ==
    Unpadded(manualDestinationPath) \o << "\\" >> \o WithBackslashes(file.finalFolder)
        \o << "\\" >> \o AmendedName(file)

\* C20 as amended: for every done record with a real finalFolder the script
\* holds exactly one guarded move; read with '' as ', its source is the trimmed
\* source path, \, and the last segment of originalPath, and its destination is
\* the trimmed destination path, \, finalFolder with every / written as \, \,
\* and the effective name: suggestedName sanitized once more when useNewName is
\* set and that is not empty, the original file name otherwise.  A record that
\* is not done gets no statement.
C20_Amended == [][ MovesAre(AmendedSource, AmendedDestination) ]_vars

\* A script was downloaded with a move into the nested folder a/b' under the
\* suggested name n', for a record of the picked directory S, and with no
\* statement for a record the user kept the original name and place of.
C20_Witness ==
    /\ lastOp = "generateAndDownloadScript"
    /\ downloads # << >>
    /\ \E st \in {downloads[1][i] : i \in 1..Len(downloads[1])} :
          /\ st.kind = "move"
          /\ st.sourceFile \in { << "C", ":", "\\", "I", "\\", "p" >>,
                                 << "C", ":", "\\", "I", "\\", "r", "'", "'" >> }
          /\ st.destFile = << "/", "o", "'", "'", "\\", "a", "\\", "b", "'", "'", "\\",
                              "n", "'", "'" >>
    /\ \E k \in 1..Len(files) :
          /\ files[k].status = "done"
          /\ ~files[k].useNewName
          /\ files[k].finalFolder = DoNotMove

\* finalFolder names no folder: it is the do-not-move sentinel, or it is not
\* set (undefined or empty).
NoFolder(file) == ~RealFolder(file)

\* The script of the step holds, for every done record without a folder, no
\* move, and exactly one guarded rename if useNewName is set and the name
\* `effective` gives differs from the original file name, and nothing at all
\* otherwise.
RenamesAre(effective(_)) ==
    (lastOp' = "generateAndDownloadScript" /\ downloads' # downloads) =>
        LET script == downloads'[Len(downloads')]
        IN  \A k \in 1..Len(files) :
                LET file == files[k]
                    mine == StatementsFor(script, file)
                    renamed == file.useNewName
                                   /\ effective(file) # FileNameOf(file.originalPath)
                IN  (file.status = "done" /\ NoFolder(file)) =>
                        /\ \A i \in 1..Len(mine) : mine[i].kind # "move"
                        /\ renamed => Len(mine) = 1 /\ mine[1].kind = "rename"
                        /\ ~renamed => mine = << >>

\* C21: for every done record whose finalFolder is the do-not-move sentinel or
\* unset, the script holds no move, and exactly one guarded in-place rename if
\* and only if useNewName is set and the effective name (suggestedName when
\* useNewName is set and suggestedName is not empty, the original file name
\* otherwise) differs from the original file name; with useNewName false the
\* record gets no statement at all.
C21_RenameInPlace == [][ RenamesAre(ClaimedName) ]_vars

\* The folder creation guards of a script, and the paths they create.
CreationGuards(script) == SelectSeq(script, LAMBDA st : st.kind = "create")

CreatedPaths(script) ==
    [i \in 1..Len(CreationGuards(script)) |-> Denoted(CreationGuards(script)[i].folderPath)]

\* The path of the folder a record with a real finalFolder is moved into.
DestinationFolderPath(file) ==
    Unpadded(manualDestinationPath) \o << "\\" >> \o WithBackslashes(file.finalFolder)

\* The real folders of the done records.
RealFolders ==
    {files[k].finalFolder : k \in {j \in 1..Len(files) :
                                      files[j].status = "done" /\ RealFolder(files[j])}}

\* C22: the script holds exactly one create-if-missing guard for each distinct
\* finalFolder of the done records that is not the sentinel, and none for the
\* sentinel, and every move is preceded in the script by the creation guard of
\* the folder it moves into.
C22_FoldersCreatedBeforeMoves ==
    [][ (lastOp' = "generateAndDownloadScript" /\ downloads' # downloads) =>
            LET script == downloads'[Len(downloads')]
                created == CreatedPaths(script)
            IN  /\ \A k \in 1..Len(files) :
                      (files[k].status = "done" /\ RealFolder(files[k])) =>
                          Cardinality({i \in 1..Len(created) :
                              created[i] = DestinationFolderPath(files[k])}) = 1
                /\ Len(created) = Cardinality(RealFolders)
                /\ \A i \in 1..Len(created) :
                      created[i] # Unpadded(manualDestinationPath) \o << "\\" >> \o DoNotMove
                /\ \A i \in 1..Len(script) :
                      script[i].kind = "move" =>
                          \E j \in 1..(i - 1) :
                              /\ script[j].kind = "create"
                              /\ script[i].destFile =
                                     script[j].folderPath \o << "\\" >>
                                         \o FileNameOf(script[i].destFile)
      ]_vars

\* A script was downloaded that moves two files into the same folder and
\* creates that folder once: the script has one guard and two moves.
C22_Witness ==
    /\ lastOp = "generateAndDownloadScript"
    /\ downloads # << >>
    /\ LET script == downloads[1]
       IN  /\ Len(CreationGuards(script)) = 1
           /\ Cardinality({i \in 1..Len(script) : script[i].kind = "move"}) = 2
           /\ CreationGuards(script)[1].folderPath =
                  << "/", "o", "'", "'", "\\", "c" >>

\* How many single quotes a text holds.
QuoteCount(s) == Cardinality({i \in 1..Len(s) : s[i] = "'"})

\* The literal is made of `parts` with every single quote doubled: its quotes
\* come in pairs only, and there are twice as many as the parts hold.
Doubled(literal, parts) ==
    /\ Quote(Denoted(literal)) = literal
    /\ QuoteCount(literal) = 2 * QuoteCount(parts)

\* C23: in every generated script, whatever single quotes the source path, the
\* destination path, the folders, the original file names and the suggested
\* names hold, every single-quoted literal has each embedded single quote
\* doubled, so that no interpolated value ends the literal it stands in.
C23_QuotesDoubled ==
    [][ (lastOp' = "generateAndDownloadScript" /\ downloads' # downloads) =>
            LET script == downloads'[Len(downloads')]
                source == manualSourcePath
                destination == manualDestinationPath
            IN  \A i \in 1..Len(script) :
                    LET st == script[i]
                    IN  IF st.kind = "create"
                        THEN \E folder \in RealFolders :
                                Doubled(st.folderPath, destination \o folder)
                        ELSE \E k \in 1..Len(files) :
                                LET file == files[k]
                                    name == FileNameOf(file.originalPath)
                                IN  /\ file.uid = st.uid
                                    /\ Doubled(st.sourceFile, source \o name)
                                    /\ st.kind = "move" =>
                                          Doubled(st.destFile,
                                                  destination \o file.finalFolder
                                                      \o AmendedName(file))
                                    /\ st.kind = "rename" =>
                                          Doubled(st.newName, AmendedName(file))
      ]_vars

\* A script was downloaded in which the source path, the destination path, the
\* folder, the original file name and the suggested name of one move each hold
\* a single quote, and a rename gives a name with a quote.
C23_Witness ==
    /\ lastOp = "generateAndDownloadScript"
    /\ downloads # << >>
    /\ \E i \in 1..Len(downloads[1]) :
          /\ downloads[1][i].kind = "move"
          /\ downloads[1][i].sourceFile = << "/", "o", "'", "'", "\\", "r", "'", "'" >>
          /\ downloads[1][i].destFile =
                 << "/", "o", "'", "'", "\\", "a", "\\", "b", "'", "'", "\\", "n", "'", "'" >>
    /\ \E i \in 1..Len(downloads[1]) :
          /\ downloads[1][i].kind = "rename"
          /\ downloads[1][i].newName = << "n", "'", "'" >>

\* The per-file statements of a script, in the order of the script.
FileStatementsOf(script) == SelectSeq(script, LAMBDA st : st.kind # "create")

\* The place of a record in the selection it was submitted with.
SubmissionIndex(uid) == uid[2]

\* C24: the move and rename statements stand in the script in the relative
\* order in which their files were submitted at intake, whatever the order in
\* which the reads of the intake batch completed.
C24_StatementsInSubmissionOrder ==
    [][ (lastOp' = "generateAndDownloadScript" /\ downloads' # downloads) =>
            LET perFile == FileStatementsOf(downloads'[Len(downloads')])
            IN  \A i, j \in 1..Len(perFile) :
                    i < j => SubmissionIndex(perFile[i].uid) < SubmissionIndex(perFile[j].uid)
      ]_vars

(***************************************************************************)
(* The three intake sources and the reads of their batches.                *)
(***************************************************************************)

\* handleFileDrop with event.dataTransfer.files = selection.  (isDragging, which
\* only styles the drop zone, is no part of the state.)
handleFileDrop(selection, tick) ==
    /\ sourceFolderName' = Null
    /\ manualSourcePath' = << >>
    /\ processFiles(<< >>, selection, tick)
    /\ submitted' = submitted + Len(selection)
    /\ UNCHANGED << folders, destinationFolderName, manualDestinationPath, runVars,
                    removals >>

\* How many selections a behaviour of SpecIntake makes.
MaxSelections == 2

\* A multi-file pick: a document without any text, a file of an unsupported
\* type, and an image.
PickedFiles ==
    << File(<< "d" >>, 2, DocxType, << >>),
       File(<< "n" >>, 3, "text/plain", << "x" >>),
       Png(<< "g" >>) >>

\* A drop: a file of an unsupported type and a document mammoth cannot read.
DroppedFiles ==
    << File(<< "n" >>, 3, "text/plain", << "x" >>),
       [File(<< "w" >>, 2, DocxType, << >>) EXCEPT !.corrupt = TRUE] >>

\* Selections from the three sources, each made while the reads of the earlier
\* ones may still be in flight; lastOp and arg name the latest selection and
\* the files the browser handed over with it.
NextIntake ==
    \/ /\ Len(intakes) < MaxSelections
       /\ handleFileSelect(PickedFiles, Len(PickedFiles))
       /\ lastOp' = "handleFileSelect" /\ arg' = PickedFiles /\ UNCHANGED << downloads, viewer >>
    \/ /\ Len(intakes) < MaxSelections
       /\ handleFileDrop(DroppedFiles, Len(DroppedFiles))
       /\ lastOp' = "handleFileDrop" /\ arg' = DroppedFiles /\ UNCHANGED << downloads, viewer >>
    \/ /\ Len(intakes) < MaxSelections
       /\ handleSourceFolderSelect(SourceDirectory, Len(TopLevelSupported(SourceDirectory)))
       /\ lastOp' = "handleSourceFolderSelect" /\ arg' = SourceDirectory
    \/ \E b \in 1..Len(intakes) : \E i \in 1..Len(intakes[b].reads) :
          readerOnload(b, i) /\ UNCHANGED << lastOp, ioVars >>
    \/ \E b \in 1..Len(intakes) : \E i \in 1..Len(intakes[b].reads) :
          extractSettled(b, i) /\ UNCHANGED << lastOp, ioVars >>

SpecIntake == Init /\ [][NextIntake]_vars

\* The batch of the latest selection is in the live list: all its reads have
\* settled.
LatestSettled == intakes # << >> /\ intakes[Len(intakes)] = Finished

\* The path a file is known by: originalPath of the record made for it.
PathOf(file) ==
    IF file.webkitRelativePath # << >> THEN file.webkitRelativePath ELSE file.name

\* The live list holds for `file` a record that failed intake: status error, an
\* error message, and no payload.
HasErrorRecord(file) ==
    \E k \in 1..Len(files) :
        /\ files[k].originalPath = PathOf(file)
        /\ files[k].status = "error"
        /\ files[k].errorMessage # Undefined
        /\ files[k].base64Data = << >>
        /\ files[k].extractedText = Undefined

HasRecord(file) == \E k \in 1..Len(files) : files[k].originalPath = PathOf(file)

Unsupported(list) == {i \in 1..Len(list) : ~isSupportedFileType(list[i].type)}

\* No read is started for a file of an unsupported type.
NoReadOfUnsupported ==
    \A b \in 1..Len(intakes) : \A i \in 1..Len(intakes[b].reads) :
        ~isSupportedFileType(intakes[b].filesToProcess[i].type) =>
            intakes[b].reads[i] = "none"

\* C25 as claimed: for each of the three intake sources, every submitted file
\* of an unsupported type has, once the batch is in the live list, a record
\* with status error and an errorMessage, and no read is attempted for it.
C25_AsClaimed ==
    /\ LatestSettled => \A i \in Unsupported(arg) : HasErrorRecord(arg[i])
    /\ NoReadOfUnsupported

\* C25 as amended: for the multi-file pick and the drop, every submitted file
\* of an unsupported type has, once the batch is in the live list, a record
\* with status error and an errorMessage, and no read is attempted for it; a
\* directory pick filters the files of unsupported types out before intake,
\* and they get no record at all.
C25_Amended ==
    /\ (LatestSettled /\ lastOp \in {"handleFileSelect", "handleFileDrop"}) =>
           \A i \in Unsupported(arg) : HasErrorRecord(arg[i])
    /\ lastOp = "handleSourceFolderSelect" =>
           \A i \in Unsupported(arg) : ~HasRecord(arg[i])
    /\ NoReadOfUnsupported

\* The second selection is a multi-file pick whose reads have all settled: its
\* three records are in the live list, the text file with status error.
C25_Witness ==
    /\ lastOp = "handleFileSelect"
    /\ LatestSettled
    /\ Len(intakes) = 2
    /\ HasErrorRecord(PickedFiles[2])
    /\ \E k \in 1..Len(files) : files[k].status = "pending"

\* How many records of the intake batch b a list holds.
RecordsOfBatch(list, b) == Cardinality({k \in 1..Len(list) : list[k].uid[1] = b})

\* C26: for every intake batch and every order in which its reads complete,
\* none of its records is in the live list while a read of the batch is still
\* unsettled, and all its records are appended to the live list in one single
\* update.
C26_BatchAppendedAtOnce ==
    /\ [](\A b \in 1..Len(intakes) :
             intakes[b] # Finished => RecordsOfBatch(files, b) = 0)
    /\ [][ \A b \in 1..Len(intakes') :
               RecordsOfBatch(files', b) > RecordsOfBatch(files, b) =>
                   /\ RecordsOfBatch(files, b) = 0
                   /\ intakes'[b] = Finished
                   /\ b <= Len(intakes) =>
                         RecordsOfBatch(files', b) = Len(intakes[b].filesToProcess)
         ]_vars

\* The batch of a multi-file pick is in the live list, all three records of
\* it, in the order in which the reads settled: the file of an unsupported
\* type, the image, and last the document that was submitted first.
C26_Witness ==
    /\ lastOp = "handleFileSelect"
    /\ LatestSettled
    /\ Len(files) = 3
    /\ files[1].name = << "n" >>
    /\ files[2].name = << "g" >>
    /\ files[3].name = << "d" >>

\* C27: a new selection gives a clean slate: once the reads of the latest
\* selection have settled, the live list holds exactly the records of that
\* selection and no record of an earlier one, also when reads of the earlier
\* selection were still in flight at the moment of the new selection.
C27_CleanSlate ==
    LatestSettled =>
        /\ \A k \in 1..Len(files) : files[k].uid[1] = Len(intakes)
        /\ RecordsOfBatch(files, Len(intakes)) > 0

\* C28: in every reachable state no two records of the live list have the same
\* id, so that removeFile, the edits of a record and the update with a
\* classification result, which all select by id, each affect one record.
C28_IdsUnique ==
    \A j, k \in 1..Len(files) : j # k => files[j].id # files[k].id

\* A payload field holds something: it is set and not the empty string.
Populated(field) == field # Undefined /\ field # << >>

\* C29: every record that is in the live list with status pending has exactly
\* one of base64Data and extractedText populated, whatever the file holds, a
\* document whose extracted text is empty included; every record that failed
\* intake has neither, and has status error from the moment it is in the list.
C29_OnePayload ==
    \A k \in 1..Len(files) :
        /\ files[k].status = "pending" =>
              Populated(files[k].base64Data) # Populated(files[k].extractedText)
        /\ files[k].errorMessage \in {UnsupportedMessage, DocxFailedMessage} =>
              /\ files[k].status = "error"
              /\ ~Populated(files[k].base64Data)
              /\ ~Populated(files[k].extractedText)

Present(field) == field # Undefined

\* C30: in every reachable state and for every record, tags, summary and
\* suggestedName are present only if the status of the record is done, and
\* errorMessage is present only if its status is error, after any sequence of
\* classification results and of edits by the user.
C30_FieldsMatchStatus ==
    \A k \in 1..Len(files) :
        /\ (Present(files[k].tags) \/ Present(files[k].summary)
                \/ Present(files[k].suggestedName)) => files[k].status = "done"
        /\ Present(files[k].errorMessage) => files[k].status = "error"

\* ---------------------------------------------------------------------------
\* The PDF viewer (pdf-viewer.component.ts)
\* ---------------------------------------------------------------------------

\* The zoom limits and the zoom step, in percent.
minZoom == 25
maxZoom == 400
zoomStep == 25

RenderFailedMessage == << "Failed to render PDF pages." >>
LoadFailedMessage == << "Failed to load PDF." >>

\* The invocations of renderAllPages that may be suspended at the same time.
MaxRenders == 2

\* The documents shown, each the sequence of its pages; a page has a width at
\* scale 1.0, and drawing it may fail.  One page, two pages, a narrow page, and
\* a document whose second page cannot be drawn.
Documents ==
    { << [width |-> 600, damaged |-> FALSE] >>,
      << [width |-> 600, damaged |-> FALSE], [width |-> 600, damaged |-> FALSE] >>,
      << [width |-> 100, damaged |-> FALSE] >>,
      << [width |-> 600, damaged |-> FALSE], [width |-> 600, damaged |-> TRUE] >> }

\* The widths of the container when the document arrives.  With a page 600
\* wide they fit it at 10%, 100% and 390%.
ClientWidths == { 92, 632, 2372 }

\* Line 111 and line 114: the width left by the padding over the width of the
\* first page, in percent (the widths above divide exactly), capped at maxZoom.
initialScale(clientWidth, firstPage) ==
    Min(maxZoom, ((clientWidth - 32) * 100) \div firstPage.width)

\* The synchronous start of renderAllPages (lines 127-136): nothing without a
\* document; otherwise the container is emptied and the invocation suspends at
\* the getPage of page 1.  caller tells who awaits the invocation.
renderAllPages(v, caller) ==
    IF v.pdfDoc = << >> THEN v
    ELSE [v EXCEPT !.container = << >>,
                   !.renders = Append(@, [i |-> 1, at |-> "getPage",
                                          caller |-> caller])]

\* The invocation ends: it leaves renders, and loadAndRenderPdf, if it awaited
\* this invocation, runs its finally block (line 123).
RenderEnded(v, k) ==
    [v EXCEPT !.renders = [j \in 1..(Len(@) - 1) |-> IF j < k THEN @[j] ELSE @[j + 1]],
              !.isLoading = IF v.renders[k].caller = "loadAndRenderPdf"
                            THEN FALSE ELSE @]

ViewerFrame ==
    UNCHANGED << folders, files, isProcessing, processedCount, totalToProcess,
                 pathVars, runVars, intakes, now, called, submitted, removals,
                 downloads >>

\* loadAndRenderPdf once the document and its first page have arrived (lines
\* 105-117): the scale is set to the initial fit and the first render starts.
documentLoaded(doc, clientWidth) ==
    /\ viewer.isLoading /\ viewer.pdfDoc = << >> /\ viewer.error = Null
    /\ viewer' = renderAllPages(
                     [viewer EXCEPT !.pdfDoc = doc,
                                    !.scale = initialScale(clientWidth, doc[1])],
                     "loadAndRenderPdf")
    /\ lastOp' = "documentLoaded" /\ arg' = << clientWidth >>
    /\ ViewerFrame

\* loadAndRenderPdf when the document cannot be loaded (lines 119-124).
documentRejected ==
    /\ viewer.isLoading /\ viewer.pdfDoc = << >> /\ viewer.error = Null
    /\ viewer' = [viewer EXCEPT !.error = LoadFailedMessage, !.isLoading = FALSE]
    /\ lastOp' = "documentRejected" /\ arg' = << >>
    /\ ViewerFrame

\* The zoom controls are in the page and the button is enabled (lines 31-40).
ZoomControlsShown == ~viewer.isLoading /\ viewer.error = Null

\* zoomIn (lines 80-84).
zoomIn ==
    /\ ZoomControlsShown
    /\ Len(viewer.renders) < MaxRenders
    /\ ~(viewer.pdfDoc = << >> \/ viewer.scale >= maxZoom)
    /\ viewer' = renderAllPages(
                     [viewer EXCEPT !.scale = Min(maxZoom, @ + zoomStep)], "zoomIn")
    /\ lastOp' = "zoomIn" /\ arg' = << >>
    /\ ViewerFrame

\* zoomOut (lines 86-90).
zoomOut ==
    /\ ZoomControlsShown
    /\ Len(viewer.renders) < MaxRenders
    /\ ~(viewer.pdfDoc = << >> \/ viewer.scale <= minZoom)
    /\ viewer' = renderAllPages(
                     [viewer EXCEPT !.scale = IF @ - zoomStep > minZoom
                                                THEN @ - zoomStep
                                                ELSE minZoom], "zoomOut")
    /\ lastOp' = "zoomOut" /\ arg' = << >>
    /\ ViewerFrame

\* renderAllPages resumes with the page it asked for (lines 136-155): the
\* viewport is taken at the scale of this moment, a canvas of that size is
\* appended to the container, and the invocation suspends at the drawing.
pageReady(k) ==
    /\ k \in 1..Len(viewer.renders)
    /\ viewer.renders[k].at = "getPage"
    /\ viewer' = [viewer EXCEPT
                     !.container = Append(@, [page |-> viewer.renders[k].i,
                                              scale |-> viewer.scale]),
                     !.renders[k].at = "render"]
    /\ lastOp' = "pageReady" /\ arg' = << k >>
    /\ ViewerFrame

\* The drawing of a page settles (lines 134-163).  A drawing that fails ends
\* the invocation in the catch block, which sets the error if none is set; one
\* that succeeds lets the loop ask for the next page, or end after the last.
pageRendered(k) ==
    /\ k \in 1..Len(viewer.renders)
    /\ viewer.renders[k].at = "render"
    /\ LET r == viewer.renders[k]
       IN  viewer' =
             IF viewer.pdfDoc[r.i].damaged
             THEN RenderEnded([viewer EXCEPT !.error = IF @ = Null
                                                       THEN RenderFailedMessage
                                                       ELSE @], k)
             ELSE IF r.i < Len(viewer.pdfDoc)
             THEN [viewer EXCEPT !.renders[k] = [r EXCEPT !.i = r.i + 1,
                                                          !.at = "getPage"]]
             ELSE RenderEnded(viewer, k)
    /\ lastOp' = "pageRendered" /\ arg' = << k >>
    /\ ViewerFrame

NextViewer ==
    \/ \E doc \in Documents, clientWidth \in ClientWidths :
           documentLoaded(doc, clientWidth)
    \/ documentRejected
    \/ zoomIn
    \/ zoomOut
    \/ \E k \in 1..MaxRenders : pageReady(k)
    \/ \E k \in 1..MaxRenders : pageRendered(k)

SpecViewer == Init /\ [][NextViewer]_vars

\* The document has loaded: the first render is over and no error is shown.
Loaded == viewer.pdfDoc # << >> /\ ~viewer.isLoading /\ viewer.error = Null

\* C31: in the PDF viewer, once the document has loaded and after any sequence
\* of zoomIn and zoomOut, the scale is between 25% and 400% inclusive, and a
\* zoom changes it by exactly 25%, whatever the ratio of the container width to
\* the page width that the initial fit used.
C31_ScaleInRangeAndStepped ==
    /\ [](Loaded => (viewer.scale >= minZoom /\ viewer.scale <= maxZoom))
    /\ [][ (Loaded /\ viewer'.scale # viewer.scale) =>
               (viewer'.scale = viewer.scale + zoomStep
                   \/ viewer'.scale = viewer.scale - zoomStep) ]_vars

\* The canvases of the container that show page p.
CanvasesOf(p) == SelectSeq(viewer.container, LAMBDA canvas : canvas.page = p)

\* C32: emptying the container at the start of each render prevents
\* duplication: after any sequence of zoomIn and zoomOut, a zoom issued while
\* the render of an earlier zoom is still suspended included, once all renders
\* have settled (without an error) the container holds exactly one canvas for
\* each page of the document, and every canvas is drawn at the current scale.
C32_OneCanvasPerPage ==
    (Loaded /\ viewer.renders = << >>) =>
        /\ \A p \in 1..Len(viewer.pdfDoc) : Len(CanvasesOf(p)) = 1
        /\ \A c \in 1..Len(viewer.container) :
               viewer.container[c].scale = viewer.scale

\* ---------------------------------------------------------------------------
\* The selectable list after a classification
\* ---------------------------------------------------------------------------

\* What the classifier answers in SpecSelect: a failure, a new folder, a folder
\* of illegal characters only, and a folder that holds a comma.
SelectOutcomes ==
    { Failure,
      Result(<< "b" >>, << "n" >>),
      Result(<< ":" >>, << "n" >>),
      Result(<< "b", ",", "c" >>, << "n" >>) }

\* One selection, a folder configuration typed before the run, and one run;
\* arg holds the answer of the classifier a step has handled.
NextSelect ==
    \/ /\ intakes = << >>
       /\ handleFileSelect(Siblings, Len(Siblings))
       /\ lastOp' = "handleFileSelect" /\ UNCHANGED ioVars
    \/ \E b \in 1..Len(intakes) : \E i \in 1..Len(intakes[b].reads) :
          /\ ReadOrder(b, i) /\ readerOnload(b, i)
          /\ lastOp' = "readerOnload" /\ UNCHANGED ioVars
    \/ \E value \in MergeConfigs :
          /\ called = << >>
          /\ folders = DefaultFolders
          /\ onFoldersInput(value)
          /\ lastOp' = "onFoldersInput" /\ arg' = value
    \/ organizeFiles /\ lastOp' = "organizeFiles" /\ UNCHANGED ioVars
    \/ \E k \in 1..Len(run.calls) : \E outcome \in SelectOutcomes :
          /\ analyzeSettled(k, outcome)
          /\ lastOp' = "analyzeSettled" /\ arg' = outcome
          /\ UNCHANGED << downloads, viewer >>

SpecSelect == Init /\ [][NextSelect]_vars

\* entry is one of the entries of list, in its own spelling.
IsEntry(list, entry) == \E k \in 1..Len(list) : list[k] = entry

\* C33: immediately after a successful classification of a record, the
\* finalFolder of the record is an entry of foldersForSelect as computed from
\* the updated folder configuration, for every folder the classifier can
\* answer, one that is empty after sanitization or holds a comma included.
C33_FinalFolderIsSelectable ==
    [][ (lastOp' = "analyzeSettled" /\ ~arg'.failed) =>
            \A j \in JustDone :
                IsEntry(foldersForSelectOf(folders'), files'[j].finalFolder)
      ]_vars

\* The move statements of a script, in the order of the script.
MovesOf(script) == SelectSeq(script, LAMBDA st : st.kind = "move")

\* C34: in every generated script no two move statements have the same
\* destination path: two distinct participating records never resolve to the
\* same destination\finalFolder\<effective name>, so the forced move of one
\* file cannot overwrite another file moved by the same script.
C34_DestinationsDistinct ==
    [][ (lastOp' = "generateAndDownloadScript" /\ downloads' # downloads) =>
            LET moves == MovesOf(downloads'[Len(downloads')])
            IN  \A i, j \in 1..Len(moves) :
                    i # j => moves[i].destFile # moves[j].destFile
      ]_vars

\* ---------------------------------------------------------------------------
\* Reads that fail
\* ---------------------------------------------------------------------------

\* A multi-file pick with a file the FileReader cannot read (it was moved away
\* after it was picked) between an image and a document mammoth cannot read.
FlakyFiles ==
    << Png(<< "g" >>),
       [Png(<< "k" >>) EXCEPT !.unreadable = TRUE],
       [File(<< "w" >>, 2, DocxType, << >>) EXCEPT !.corrupt = TRUE] >>

\* The read of file i of intake b, or the extraction of its text, settles: the
\* browser fires load or error, or the promise of mammoth settles.
ReadSettles(b, i) ==
    /\ b \in 1..Len(intakes)
    /\ i \in 1..Len(intakes[b].reads)
    /\ readerOnload(b, i) \/ readerError(b, i) \/ extractSettled(b, i)
    /\ UNCHANGED << lastOp, ioVars >>

\* Selections, each made while the reads of the earlier ones may still be in
\* flight, and the reads of their batches, which may fail.
NextReads ==
    \/ /\ Len(intakes) < MaxSelections
       /\ \E selection \in {PickedFiles, FlakyFiles} :
             /\ handleFileSelect(selection, Len(selection))
             /\ lastOp' = "handleFileSelect" /\ arg' = selection
       /\ UNCHANGED << downloads, viewer >>
    \/ /\ Len(intakes) < MaxSelections
       /\ handleFileDrop(DroppedFiles, Len(DroppedFiles))
       /\ lastOp' = "handleFileDrop" /\ arg' = DroppedFiles
       /\ UNCHANGED << downloads, viewer >>
    \/ \E b \in 1..MaxSelections : \E i \in 1..Len(FlakyFiles) : ReadSettles(b, i)

\* The browser delivers the event of every read, and every promise of mammoth
\* settles: no read stays in flight for ever.
SpecReads ==
    /\ Init
    /\ [][NextReads]_vars
    /\ \A b \in 1..MaxSelections : \A i \in 1..Len(FlakyFiles) :
           WF_vars(ReadSettles(b, i))

\* Every read of batch b has settled, with success or without.
ReadsSettled(b) ==
    /\ b \in 1..Len(intakes)
    /\ \A i \in 1..Len(intakes[b].reads) :
           intakes[b].reads[i] \notin {"reading", "extracting"}

\* Batch b has handed its records to the live list.
BatchAppended(b) == b \in 1..Len(intakes) /\ intakes[b] = Finished

\* C35: for every non-empty intake batch, once each of its reads has settled,
\* whether the read (or the extraction of the text) succeeded or failed, the
\* records of the batch are eventually appended to the live list; a read that
\* fails does not keep the records of the other files of the batch away.
C35_SettledBatchIsAppended ==
    \A b \in 1..MaxSelections : ReadsSettled(b) ~> BatchAppended(b)

====
